---- MODULE Spec2Model ----
(***************************************************************************)
(* Azure Snapshot Manager (src/prod/main.py): the snapshot-deletion run    *)
(* (confirmation of large batches, pre-validation pool, scope-lock         *)
(* removal, deletion pool, lock restoration, merge of the two aggregates), *)
(* the retrying command executor run_az_command_async, the one-shot        *)
(* executor run_az_command, the snapshot-creation flow                     *)
(* (create_snapshots, process_vm) and validate_snapshots.                  *)
(*                                                                         *)
(* Specifications: Spec (deletion run), SpecConfirm (deletion run with     *)
(* input files around the confirmation threshold), SpecRetry               *)
(* (run_az_command_async), SpecRun (run_az_command), SpecCreate            *)
(* (creation flow), SpecValidate (validate_snapshots).  Each one keeps     *)
(* the variables of the others idle.                                       *)
(*                                                                         *)
(* Python strings that the program takes apart (resource ids, their        *)
(* segments, subscription and lock names) are sequences of one-character   *)
(* strings, so that str.split and str.strip are computed.  Fixed literals  *)
(* of the program (status tags, messages) are TLA+ strings.                *)
(***************************************************************************)
EXTENDS Integers, Sequences, FiniteSets, TLC

VARIABLES
    pc,                      \* position of the main thread in delete_snapshots
    exc,                     \* exception that ended the run ("none" while running)
    snapshot_ids,            \* delete_snapshots: lines of the input file
    subscription_names,      \* delete_snapshots: get_subscription_names()
    pool_fn,                 \* worker function of the current ThreadPoolExecutor
    futures,                 \* future_to_snapshot of the current pool
    progress,                \* Progress task counter of the current pass
    valid_snapshots,         \* pre_validate_snapshots / delete_snapshots
    pre_validation_results,  \* aggregate returned by pre_validate_snapshots
    deletion_results,        \* aggregate returned by delete_valid_snapshots
    results,                 \* delete_snapshots: the final aggregate
    resource_groups,         \* delete_snapshots: set of (subscription, group)
    scan_started,            \* pairs whose loop iteration has begun
    cur_pair,                \* loop variables subscription_id, resource_group
    locks,                   \* check_and_remove_scope_locks: parsed lock list
    lock_i,                  \* position of "for lock in locks"
    removed_locks,           \* check_and_remove_scope_locks: local list
    ds_removed_locks,        \* delete_snapshots: removed_locks (line 604)
    current_subscription,    \* loop-local current_subscription
    restore_i,               \* position of the loop of restore_scope_locks
    restore_results,         \* result of each 'az lock create' issued, in order
    restored_locks,          \* restore_scope_locks: counter
    restored_returned,       \* delete_snapshots: restored_locks (line 610)
    cloud_locks,             \* the platform: locks on each resource group
    issued,                  \* the platform: how often each command was issued
    active_subscription,     \* the platform: subscription the CLI context is set to
    misdirected,             \* lock commands run while the context was another one
    confirm,                 \* delete_snapshots: answer to the prompt of line 590
    \* ---- run_az_command_async ----
    r_pc, max_retries, attempt, attempts, sleeps, r_result,
    \* ---- run_az_command ----
    run_pc,                  \* "call" before the call, "returned" or "raised" after
    run_command,             \* the argument: its form and the command
    run_env,                 \* what the operating system does with the process
    run_count,               \* number of processes the call has launched
    run_result,              \* value returned to the caller (None when it raised)
    \* ---- create_snapshots / process_vm ----
    c_pc,                    \* position in create_snapshots
    c_exc,                   \* exception that left create_snapshots
    vm_list,                 \* stripped non-empty lines of snapshot_vmlist.txt
    c_i,                     \* position of "for line in vm_list"
    c_step,                  \* step of process_vm whose command is running
    c_issued,                \* commands started, in order: <<line index, step>>
    c_calls,                 \* run_az_command_async calls that returned
    successful_snapshots,    \* create_snapshots: list of (vm_name, snapshot_name)
    failed_snapshots,        \* create_snapshots: list of (name or line, status)
    c_progress,              \* Progress task counter of create_snapshots
    c_subscription,          \* the platform: subscription the CLI context is set to
    snap_rid_list,           \* lines appended to snap_rid_list.txt
    \* ---- validate_snapshots ----
    v_pc,                    \* position in validate_snapshots
    v_snapshot_ids,          \* validate_snapshots: lines of the input file
    v_i,                     \* position of "for snapshot_id in snapshot_ids"
    v_envs,                  \* what each 'az snapshot show' issued met, in order
    v_details,               \* details: value returned by run_az_command (line 303)
    validated_snapshots,     \* validate_snapshots: list of snapshot_info
    v_progress,              \* Progress task counter of validate_snapshots
    v_summary                \* the three counts printed at lines 349-351

delete_vars == <<pc, exc, snapshot_ids, subscription_names, pool_fn, futures,
                 progress, valid_snapshots, pre_validation_results,
                 deletion_results, results, resource_groups, scan_started,
                 cur_pair, locks, lock_i, removed_locks, ds_removed_locks,
                 current_subscription, restore_i, restore_results,
                 restored_locks, restored_returned, cloud_locks, issued,
                 active_subscription, misdirected, confirm>>

retry_vars == <<r_pc, max_retries, attempt, attempts, sleeps, r_result>>

run_vars == <<run_pc, run_command, run_env, run_count, run_result>>

create_vars == <<c_pc, c_exc, vm_list, c_i, c_step, c_issued, c_calls,
                 successful_snapshots, failed_snapshots, c_progress,
                 c_subscription, snap_rid_list>>

validate_vars == <<v_pc, v_snapshot_ids, v_i, v_envs, v_details,
                   validated_snapshots, v_progress, v_summary>>

vars == <<delete_vars, retry_vars, run_vars, create_vars, validate_vars>>

(***************************************************************************)
(* Bounds of the model.                                                    *)
(***************************************************************************)
MaxIds == 2

MaxRetries == 3

MaxOver == 2

MaxVms == 2

(***************************************************************************)
(* Program constants.                                                      *)
(***************************************************************************)
max_workers == 10

MinSnapshotParts == 9

MinGroupParts == 5

DefaultMaxRetries == 3

ConfirmThreshold == 100

(***************************************************************************)
(* Strings.                                                                *)
(***************************************************************************)
None == <<>>

Unknown == <<"U", "n", "k", "n", "o", "w", "n">>

RECURSIVE SplitFrom(_, _, _, _)
SplitFrom(s, i, cur, acc) ==
    IF i > Len(s) THEN Append(acc, cur)
    ELSE IF s[i] = "/" THEN SplitFrom(s, i + 1, <<>>, Append(acc, cur))
    ELSE SplitFrom(s, i + 1, Append(cur, s[i]), acc)

\* snapshot_id.split('/')
Split(s) == SplitFrom(s, 1, <<>>, <<>>)

\* parts[-1]
Last(parts) == parts[Len(parts)]

(***************************************************************************)
(* The inputs: snapshot ids of the input file, the subscription names the  *)
(* CLI reports, and the locks the platform holds.                          *)
(***************************************************************************)
\* /s/A/r/g/p/m/t/n : 9 segments, subscription A, resource group g
IdA == <<"/", "s", "/", "A", "/", "r", "/", "g", "/", "p", "/", "m", "/", "t", "/", "n">>

\* /s/B/r/h/p/m/t/o : 9 segments, subscription B, resource group h
IdB == <<"/", "s", "/", "B", "/", "r", "/", "h", "/", "p", "/", "m", "/", "t", "/", "o">>

\* /s/B/r/k : 5 segments, too short for a snapshot id
IdShort == <<"/", "s", "/", "B", "/", "r", "/", "k">>

SnapshotIdUniverse == {IdA, IdB, IdShort}

SubA == <<"A">>

SubB == <<"B">>

SubscriptionNameChoices ==
    { <<>>, [s \in {SubA} |-> <<"P", "r", "o", "d">>] }

CanNotDelete == "CanNotDelete"

InitialLocks ==
    (<<SubA, <<"g">>>> :> << [name |-> <<"L", "1">>, level |-> CanNotDelete],
                              [name |-> <<"L", "2">>, level |-> "ReadOnly"] >>)
    @@ (<<SubB, <<"h">>>> :> << [name |-> <<"L", "3">>, level |-> CanNotDelete] >>)
    @@ (<<SubB, <<"k">>>> :> << [name |-> <<"L", "4">>, level |-> CanNotDelete] >>)

LocksOf(cloud, pair) == IF pair \in DOMAIN cloud THEN cloud[pair] ELSE <<>>

(***************************************************************************)
(* Commands issued to the CLI.                                             *)
(***************************************************************************)
Cmd(op, a, b) == [op |-> op, a |-> a, b |-> b]

Issue(log, c) ==
    [x \in DOMAIN log \cup {c} |->
        IF x = c THEN (IF c \in DOMAIN log THEN log[c] ELSE 0) + 1 ELSE log[x]]

Count(log, c) == IF c \in DOMAIN log THEN log[c] ELSE 0

IssuedOps(log, op) == {c \in DOMAIN log : c.op = op}

\* result.startswith("Error:") on the value run_az_command returned
IsError(result) == result = "Error"

(***************************************************************************)
(* The aggregate: grouping key -> tag -> list of payloads                  *)
(* (defaultdict(lambda: defaultdict(list))).                               *)
(***************************************************************************)
\* faulty variant of AggAdd: the bucket is assigned instead of appended to,
\* so it keeps the entry that came last
AggAddAssign(agg, key, tag, data) ==
    LET inner  == IF key \in DOMAIN agg THEN agg[key] ELSE <<>>
        inner2 == [t \in DOMAIN inner \cup {tag} |->
                      IF t = tag THEN <<data>> ELSE inner[t]]
    IN  [k \in DOMAIN agg \cup {key} |-> IF k = key THEN inner2 ELSE agg[k]]

\* results[key][tag].append(data)
AggAdd(agg, key, tag, data) ==
    LET inner  == IF key \in DOMAIN agg THEN agg[key] ELSE <<>>
        bucket == IF tag \in DOMAIN inner THEN inner[tag] ELSE <<>>
        inner2 == [t \in DOMAIN inner \cup {tag} |->
                      IF t = tag THEN Append(bucket, data) ELSE inner[t]]
    IN  [k \in DOMAIN agg \cup {key} |-> IF k = key THEN inner2 ELSE agg[k]]

Bucket(agg, key, tag) ==
    IF key \in DOMAIN agg /\ tag \in DOMAIN agg[key] THEN agg[key][tag] ELSE <<>>

RECURSIVE SumOver(_, _)
SumOver(S, f) ==
    IF S = {} THEN 0
    ELSE LET x == CHOOSE y \in S : TRUE IN f[x] + SumOver(S \ {x}, f)

\* number of payloads, summed over every key and tag
PayloadCount(agg) ==
    SumOver(DOMAIN agg,
            [k \in DOMAIN agg |->
                SumOver(DOMAIN agg[k], [t \in DOMAIN agg[k] |-> Len(agg[k][t])])])

\* dict.update: every tag of b replaces the tag of a
DictUpdate(a, b) ==
    [t \in DOMAIN a \cup DOMAIN b |-> IF t \in DOMAIN b THEN b[t] ELSE a[t]]

\* results = pre_validation_results; results[subscription].update(data)
Merge(pre, del) ==
    [k \in DOMAIN pre \cup DOMAIN del |->
        IF k \in DOMAIN del
        THEN DictUpdate(IF k \in DOMAIN pre THEN pre[k] ELSE <<>>, del[k])
        ELSE pre[k]]

(***************************************************************************)
(* Worker functions of the two pools.                                      *)
(***************************************************************************)
FaultText == "fault"

\* subscription_names.get(subscription_id, subscription_id)
SubscriptionName(names, subscription_id) ==
    IF subscription_id \in DOMAIN names THEN names[subscription_id] ELSE subscription_id

WellFormed(snapshot_id) == Len(Split(snapshot_id)) >= MinSnapshotParts

\* faulty variant of process_snapshot: the length test of line 427 uses the
\* number of segments that get_resource_groups_from_snapshots asks for
process_snapshot_short_test(snapshot_id, names, env) ==
    LET parts == Split(snapshot_id) IN
    IF Len(parts) < MinGroupParts
    THEN [subscription_name |-> None, status |-> "invalid",
          data |-> <<snapshot_id, "Invalid snapshot ID format">>]
    ELSE IF env = "fault"
    THEN [subscription_name |-> None, status |-> "error",
          data |-> <<snapshot_id, FaultText>>]
    ELSE IF env = "missing"
    THEN [subscription_name |-> SubscriptionName(names, parts[3]),
          status |-> "non-existent", data |-> Last(parts)]
    ELSE [subscription_name |-> SubscriptionName(names, parts[3]),
          status |-> "valid", data |-> Last(parts)]

\* process_snapshot; env is what check_snapshot_exists met:
\* "exists", "missing" (the show command returned an error), "fault" (it raised)
process_snapshot(snapshot_id, names, env) ==
    LET parts == Split(snapshot_id) IN
    IF Len(parts) < MinSnapshotParts
    THEN [subscription_name |-> None, status |-> "invalid",
          data |-> <<snapshot_id, "Invalid snapshot ID format">>]
    ELSE IF env = "fault"
    THEN [subscription_name |-> None, status |-> "error",
          data |-> <<snapshot_id, FaultText>>]
    ELSE IF env = "missing"
    THEN [subscription_name |-> SubscriptionName(names, parts[3]),
          status |-> "non-existent", data |-> Last(parts)]
    ELSE [subscription_name |-> SubscriptionName(names, parts[3]),
          status |-> "valid", data |-> Last(parts)]

\* faulty variant of FoldPreValidation: the else branch of line 464 is missing
FoldPreValidationNoElse(agg, r) ==
    IF r.subscription_name # <<>>
    THEN AggAdd(agg, r.subscription_name, r.status, r.data)
    ELSE agg

\* pre_validate_snapshots, body of the as_completed loop: the aggregate
FoldPreValidation(agg, r) ==
    IF r.subscription_name # <<>>
    THEN AggAdd(agg, r.subscription_name, r.status, r.data)
    ELSE AggAdd(agg, Unknown, r.status, r.data)

\* faulty variant of FoldValid: the status test of line 462 is missing
FoldValidAnyStatus(valid, snapshot_id, r) ==
    IF r.subscription_name # <<>>
    THEN Append(valid, snapshot_id)
    ELSE valid

\* faulty variant of FoldValid: every id that is not 'invalid' is kept
FoldValidUnlessInvalid(valid, snapshot_id, r) ==
    IF r.status # "invalid" THEN Append(valid, snapshot_id) ELSE valid

\* pre_validate_snapshots, body of the as_completed loop: the valid list
FoldValid(valid, snapshot_id, r) ==
    IF r.subscription_name # <<>> /\ r.status = "valid"
    THEN Append(valid, snapshot_id)
    ELSE valid

\* faulty variant of FoldDeletion: a raised future is logged and not recorded
FoldDeletionLogOnly(agg, snapshot_id, names, env) ==
    LET parts == Split(snapshot_id) IN
    IF env = "fault" \/ Len(parts) < 3
    THEN agg
    ELSE IF env = "ok"
    THEN AggAdd(agg, SubscriptionName(names, parts[3]), "deleted", Last(parts))
    ELSE AggAdd(agg, SubscriptionName(names, parts[3]), "failed",
                <<Last(parts), "Deletion failed">>)

\* delete_valid_snapshots, body of the as_completed loop; env is what
\* future.result() gave: "ok", "Error" (delete_snapshot returned False) or
\* "fault" (it raised)
FoldDeletion(agg, snapshot_id, names, env) ==
    LET parts == Split(snapshot_id) IN
    IF env = "fault" \/ Len(parts) < 3
    THEN AggAdd(agg, Unknown, "error", <<snapshot_id, FaultText>>)
    ELSE IF env = "ok"
    THEN AggAdd(agg, SubscriptionName(names, parts[3]), "deleted", Last(parts))
    ELSE AggAdd(agg, SubscriptionName(names, parts[3]), "failed",
                <<Last(parts), "Deletion failed">>)

\* faulty variant of get_resource_groups_from_snapshots: the pairs are taken
\* from every line of the input file instead of the list passed in
resource_groups_of_input(ids) ==
    { <<Split(snapshot_ids[i])[3], Split(snapshot_ids[i])[5]>> :
        i \in {j \in 1..Len(snapshot_ids) :
                  Len(Split(snapshot_ids[j])) >= MinGroupParts} }

\* get_resource_groups_from_snapshots
get_resource_groups_from_snapshots(ids) ==
    { <<Split(ids[i])[3], Split(ids[i])[5]>> :
        i \in {j \in 1..Len(ids) : Len(Split(ids[j])) >= MinGroupParts} }

\* executor.submit(...) for every element of ids
Submit(ids) ==
    [i \in 1..Len(ids) |->
        [id |-> ids[i], st |-> "pending", env |-> "none", res |-> "none"]]

Running == {i \in 1..Len(futures) : futures[i].st = "running"}

\* faulty variant of PoolDrained: the pool is left once every future was started
PoolNotAwaited == \A i \in 1..Len(futures) : futures[i].st # "pending"

\* the as_completed loop has consumed every future and the pool has shut down
PoolDrained == \A i \in 1..Len(futures) : futures[i].st = "collected"

\* every worker thread of the pool has finished
WorkersIdle == \A i \in 1..Len(futures) : futures[i].st \in {"done", "collected"}

(***************************************************************************)
(* The confirmation of large batches (delete_snapshots, lines 589-593).    *)
(***************************************************************************)
\* faulty variant of NeedsConfirmation: the threshold itself already asks
NeedsConfirmationFrom(n) == n >= ConfirmThreshold

\* line 589: len(snapshot_ids) > 100
NeedsConfirmation(n) == n > ConfirmThreshold

\* str.lower() on the answers of the model
Lower(s) ==
    [i \in 1..Len(s) |-> IF s[i] = "Y" THEN "y" ELSE IF s[i] = "N" THEN "n" ELSE s[i]]

\* line 591: confirm.lower() != 'y'
Declined(answer) == Lower(answer) # <<"y">>

\* what the user can type at the prompt of line 590
ConfirmAnswers == { <<"y">>, <<"Y">>, <<"n">>, <<"N">>, <<>>, <<"y", "e", "s">> }

\* the prompt was not shown
Unasked == [asked |-> FALSE, answer |-> <<>>]

(***************************************************************************)
(* Initial state: the input file has been read.                            *)
(***************************************************************************)
\* position of each id in the order the input lists are written in
IdRank == (IdA :> 1) @@ (IdB :> 2) @@ (IdShort :> 3)

\* the input files of up to MaxIds lines, duplicates included.  Both pools
\* complete their futures in any order, so a file and its permutations have
\* the same runs up to the numbering of the futures: one order of each
\* multiset of lines is kept.
InputLists ==
    { ids \in UNION { [1..n -> SnapshotIdUniverse] : n \in 0..MaxIds } :
        \A i \in 1..Len(ids) : \A j \in i..Len(ids) : IdRank[ids[i]] <= IdRank[ids[j]] }

RetryIdle ==
    /\ r_pc = "idle" /\ max_retries = DefaultMaxRetries /\ attempt = 0
    /\ attempts = <<>> /\ sleeps = <<>> /\ r_result = None

RunIdle ==
    /\ run_pc = "idle" /\ run_command = None /\ run_env = None
    /\ run_count = 0 /\ run_result = None

ValidateIdle ==
    /\ v_pc = "idle" /\ v_snapshot_ids = <<>> /\ v_i = 0 /\ v_envs = <<>>
    /\ v_details = None /\ validated_snapshots = <<>> /\ v_progress = 0
    /\ v_summary = <<>>

CreateIdle ==
    /\ c_pc = "idle" /\ c_exc = "none" /\ vm_list = <<>> /\ c_i = 0
    /\ c_step = "none" /\ c_issued = {} /\ c_calls = <<>>
    /\ successful_snapshots = <<>> /\ failed_snapshots = <<>> /\ c_progress = 0
    /\ c_subscription = None /\ snap_rid_list = <<>>

\* the subscription the CLI context is set to when the program starts
DefaultSubscription == SubB

Init ==
    /\ pc = "start"
    /\ exc = "none"
    /\ snapshot_ids \in InputLists
    /\ subscription_names \in SubscriptionNameChoices
    /\ pool_fn = "none"
    /\ futures = <<>>
    /\ progress = 0
    /\ valid_snapshots = <<>>
    /\ pre_validation_results = <<>>
    /\ deletion_results = <<>>
    /\ results = <<>>
    /\ resource_groups = {}
    /\ scan_started = {}
    /\ cur_pair = <<None, None>>
    /\ locks = <<>>
    /\ lock_i = 0
    /\ removed_locks = <<>>
    /\ ds_removed_locks = <<>>
    /\ current_subscription = None
    /\ restore_i = 0
    /\ restore_results = <<>>
    /\ restored_locks = 0
    /\ restored_returned = -1
    /\ cloud_locks = InitialLocks
    /\ issued = <<>>
    /\ active_subscription = DefaultSubscription
    /\ misdirected = {}
    /\ confirm = Unasked
    /\ RetryIdle
    /\ RunIdle
    /\ CreateIdle
    /\ ValidateIdle

(***************************************************************************)
(* Pool workers (threads of ThreadPoolExecutor).                           *)
(***************************************************************************)
\* faulty variant of ContextAfterWorker: the worker sets the context to the
\* subscription of its id before its command
ContextAfterWorkerSet(active, snapshot_id) ==
    IF Len(Split(snapshot_id)) >= 3 THEN Split(snapshot_id)[3] ELSE active

\* check_snapshot_exists and delete_snapshot: 'az snapshot show --ids' and
\* 'az snapshot delete --ids' address the resource by its full id and
\* leave the subscription the CLI context is set to as it was
ContextAfterWorker(active, snapshot_id) == active

\* a worker thread picks up future i and issues its command
WorkerStart(i) ==
    /\ futures[i].st = "pending"
    /\ Cardinality(Running) < max_workers
    /\ futures' = [futures EXCEPT ![i].st = "running"]
    /\ issued' = IF pool_fn = "delete_snapshot"
                 THEN Issue(issued, Cmd("snapshot delete", futures[i].id, None))
                 ELSE IF WellFormed(futures[i].id)
                 THEN Issue(issued, Cmd("snapshot show", futures[i].id, None))
                 ELSE issued
    /\ UNCHANGED <<pc, exc, snapshot_ids, subscription_names, pool_fn, progress,
                   valid_snapshots, pre_validation_results, deletion_results,
                   results, resource_groups, scan_started, cur_pair, locks, lock_i,
                   removed_locks, ds_removed_locks, current_subscription,
                   restore_i, restore_results, restored_locks, restored_returned,
                   cloud_locks>>
    /\ active_subscription' = ContextAfterWorker(active_subscription, futures[i].id)
    /\ UNCHANGED <<misdirected, confirm>>
    /\ UNCHANGED <<retry_vars, run_vars, create_vars, validate_vars>>

\* the worker function of future i returns or raises
WorkerFinish(i) ==
    /\ futures[i].st = "running"
    /\ \E env \in (IF pool_fn = "delete_snapshot" THEN {"ok", "Error", "fault"}
                   ELSE IF WellFormed(futures[i].id) THEN {"exists", "missing", "fault"}
                   ELSE {"exists"}) :
          futures' = [futures EXCEPT ![i].st = "done", ![i].env = env,
                         ![i].res = IF pool_fn = "delete_snapshot" THEN env
                                    ELSE process_snapshot(futures[i].id,
                                                          subscription_names, env)]
    /\ UNCHANGED <<pc, exc, snapshot_ids, subscription_names, pool_fn, progress,
                   valid_snapshots, pre_validation_results, deletion_results,
                   results, resource_groups, scan_started, cur_pair, locks, lock_i,
                   removed_locks, ds_removed_locks, current_subscription,
                   restore_i, restore_results, restored_locks, restored_returned,
                   cloud_locks, issued>>
    /\ UNCHANGED <<active_subscription, misdirected, confirm>>
    /\ UNCHANGED <<retry_vars, run_vars, create_vars, validate_vars>>

(***************************************************************************)
(* delete_snapshots, main thread.                                          *)
(***************************************************************************)
\* delete_snapshots, lines 589-595: the confirmation of a large batch, then
\* pre_validate_snapshots is entered and every id is submitted
StartPreValidate ==
    /\ pc = "start"
    /\ \E answer \in (IF NeedsConfirmation(Len(snapshot_ids))
                      THEN ConfirmAnswers ELSE {<<>>}) :
          /\ confirm' = IF NeedsConfirmation(Len(snapshot_ids))
                        THEN [asked |-> TRUE, answer |-> answer] ELSE confirm
          /\ IF NeedsConfirmation(Len(snapshot_ids)) /\ Declined(answer)
             THEN /\ pc' = "cancelled"
                  /\ UNCHANGED <<pool_fn, futures, progress>>
             ELSE /\ pc' = "prevalidate"
                  /\ pool_fn' = "process_snapshot"
                  /\ futures' = Submit(snapshot_ids)
                  /\ progress' = 0
    /\ UNCHANGED <<exc, snapshot_ids, subscription_names,
                   valid_snapshots, pre_validation_results, deletion_results,
                   results, resource_groups, scan_started, cur_pair, locks, lock_i,
                   removed_locks, ds_removed_locks, current_subscription,
                   restore_i, restore_results, restored_locks, restored_returned,
                   cloud_locks, issued>>
    /\ UNCHANGED <<active_subscription, misdirected>>
    /\ UNCHANGED <<retry_vars, run_vars, create_vars, validate_vars>>

\* faulty variant of Advanced: the update sits inside the try block, so a
\* future that raised or returned an 'error' outcome is not counted
AdvancedUnlessFault(completed, outcome) ==
    IF outcome \in {"fault", "error"} THEN completed ELSE completed + 1

\* progress.update(task, advance=1), after the try statement of the loop
\* body (lines 468 and 494): the outcome of the future is not looked at
Advanced(completed, outcome) == completed + 1

\* pre_validate_snapshots: one turn of the as_completed loop
CollectPreValidation(i) ==
    /\ pc = "prevalidate"
    /\ futures[i].st = "done"
    /\ futures' = [futures EXCEPT ![i].st = "collected"]
    /\ pre_validation_results' = FoldPreValidation(pre_validation_results, futures[i].res)
    /\ valid_snapshots' = FoldValid(valid_snapshots, futures[i].id, futures[i].res)
    /\ progress' = Advanced(progress, futures[i].res.status)
    /\ UNCHANGED <<pc, exc, snapshot_ids, subscription_names, pool_fn,
                   deletion_results,
                   results, resource_groups, scan_started, cur_pair, locks, lock_i,
                   removed_locks, ds_removed_locks, current_subscription,
                   restore_i, restore_results, restored_locks, restored_returned,
                   cloud_locks, issued>>
    /\ UNCHANGED <<active_subscription, misdirected, confirm>>
    /\ UNCHANGED <<retry_vars, run_vars, create_vars, validate_vars>>

\* delete_snapshots, lines 595-602: pre-validation returned
PreValidateReturn ==
    /\ pc = "prevalidate"
    /\ PoolDrained
    /\ IF valid_snapshots = <<>>
       THEN /\ results' = pre_validation_results
            /\ pc' = "done"
            /\ UNCHANGED resource_groups
       ELSE /\ resource_groups' = get_resource_groups_from_snapshots(valid_snapshots)
            /\ pc' = "scan"
            /\ UNCHANGED results
    /\ UNCHANGED <<exc, snapshot_ids, subscription_names, pool_fn, futures, progress,
                   valid_snapshots, pre_validation_results, deletion_results,
                   scan_started, cur_pair, locks, lock_i,
                   removed_locks, ds_removed_locks, current_subscription,
                   restore_i, restore_results, restored_locks, restored_returned,
                   cloud_locks, issued>>
    /\ UNCHANGED <<active_subscription, misdirected, confirm>>
    /\ UNCHANGED <<retry_vars, run_vars, create_vars, validate_vars>>

\* switch_subscription(subscription, current_subscription) issues a command
NeedsSwitch(subscription, current) == subscription # current

\* what 'az account set' run through subprocess.run(check=True) can meet:
\* "ok"; "nonzero" (CalledProcessError, raised again by run_az_command and by
\* switch_subscription); "nostart" (the process cannot be started: the
\* exception is caught at line 81 and returned as an "Error: ..." string,
\* which switch_subscription does not look at)
SwitchOutcomes == {"ok", "nonzero", "nostart"}

\* the set of lock commands that ran in another subscription than the one
\* the program meant, after command c meant for the subscription
Misdirect(set, c, subscription) ==
    IF active_subscription # subscription THEN set \cup {c} ELSE set

\* what run_az_command returns for a shell-string command
CommandOutcomes == {"ok", "Error"}

\* check_and_remove_scope_locks: next pair of the set, switch_subscription
ScanSwitch(pair) ==
    /\ pc = "scan"
    /\ pair \in resource_groups \ scan_started
    /\ scan_started' = scan_started \cup {pair}
    /\ cur_pair' = pair
    /\ IF NeedsSwitch(pair[1], current_subscription)
       THEN /\ issued' = Issue(issued, Cmd("account set", pair[1], None))
            /\ \E out \in SwitchOutcomes :
                  IF out = "nonzero"
                  THEN /\ pc' = "exited"
                       /\ exc' = "CalledProcessError"
                       /\ UNCHANGED <<current_subscription, active_subscription>>
                  ELSE /\ current_subscription' = pair[1]
                       /\ active_subscription' =
                              IF out = "ok" THEN pair[1] ELSE active_subscription
                       /\ pc' = "scan_list"
                       /\ UNCHANGED exc
       ELSE /\ pc' = "scan_list"
            /\ UNCHANGED <<issued, current_subscription, active_subscription, exc>>
    /\ UNCHANGED <<snapshot_ids, subscription_names, pool_fn, futures, progress,
                   valid_snapshots, pre_validation_results, deletion_results,
                   results, resource_groups, locks, lock_i, removed_locks,
                   ds_removed_locks, restore_i, restore_results, restored_locks,
                   restored_returned, cloud_locks>>
    /\ UNCHANGED <<misdirected, confirm>>
    /\ UNCHANGED <<retry_vars, run_vars, create_vars, validate_vars>>

\* check_and_remove_scope_locks, lines 392-393: az lock list and json.loads
ScanList ==
    /\ pc = "scan_list"
    /\ issued' = Issue(issued, Cmd("lock list", cur_pair[2], None))
    /\ misdirected' = Misdirect(misdirected, Cmd("lock list", cur_pair[2], None),
                                cur_pair[1])
    /\ \E out \in CommandOutcomes :
          IF IsError(out)
          THEN /\ pc' = "exited"
               /\ exc' = "JSONDecodeError"
               /\ UNCHANGED <<locks, lock_i>>
          ELSE /\ locks' = LocksOf(cloud_locks, <<active_subscription, cur_pair[2]>>)
               /\ lock_i' = 1
               /\ pc' = IF LocksOf(cloud_locks, <<active_subscription, cur_pair[2]>>) = <<>>
                        THEN "scan" ELSE "scan_locks"
               /\ UNCHANGED exc
    /\ UNCHANGED <<snapshot_ids, subscription_names, pool_fn, futures, progress,
                   valid_snapshots, pre_validation_results, deletion_results,
                   results, resource_groups, scan_started, cur_pair,
                   removed_locks, ds_removed_locks, current_subscription,
                   restore_i, restore_results, restored_locks,
                   restored_returned, cloud_locks>>
    /\ UNCHANGED <<active_subscription, confirm>>
    /\ UNCHANGED <<retry_vars, run_vars, create_vars, validate_vars>>

\* cloud state after a successful 'az lock delete'
WithoutLock(cloud, pair, name) ==
    [p \in DOMAIN cloud |->
        IF p = pair THEN SelectSeq(cloud[p], LAMBDA l : l.name # name) ELSE cloud[p]]

\* cloud state after a successful 'az lock create ... --lock-type CanNotDelete'
WithLock(cloud, pair, name) ==
    [p \in DOMAIN cloud \cup {pair} |->
        IF p = pair
        THEN Append(SelectSeq(LocksOf(cloud, p), LAMBDA l : l.name # name),
                    [name |-> name, level |-> CanNotDelete])
        ELSE cloud[p]]

\* faulty variant of Removable: every lock of the listing is removed
RemovableAny(lock) == lock.level \in {CanNotDelete, "ReadOnly"}

\* check_and_remove_scope_locks, line 395: the lock is one to remove
Removable(lock) == lock.level = CanNotDelete

\* faulty variant of RecordRemoved: the lock is recorded whatever the delete returned
RecordRemovedAlways(removed, out, rec) == Append(removed, rec)

\* check_and_remove_scope_locks, lines 398-399: record a lock
RecordRemoved(removed, out, rec) == IF ~IsError(out) THEN Append(removed, rec) ELSE removed

\* check_and_remove_scope_locks, lines 394-402: one turn of "for lock in locks"
ScanLock ==
    /\ pc = "scan_locks"
    /\ lock_i <= Len(locks)
    /\ LET lock == locks[lock_i] IN
       IF Removable(lock)
       THEN /\ issued' = Issue(issued, Cmd("lock delete", lock.name, cur_pair[2]))
            /\ misdirected' = Misdirect(misdirected,
                                  Cmd("lock delete", lock.name, cur_pair[2]), cur_pair[1])
            /\ \E out \in CommandOutcomes :
                  /\ removed_locks' = RecordRemoved(removed_locks, out,
                                          <<cur_pair[1], cur_pair[2], lock.name>>)
                  /\ cloud_locks' = IF IsError(out) THEN cloud_locks
                                    ELSE WithoutLock(cloud_locks,
                                             <<active_subscription, cur_pair[2]>>,
                                             lock.name)
       ELSE UNCHANGED <<issued, misdirected, removed_locks, cloud_locks>>
    /\ lock_i' = lock_i + 1
    /\ pc' = IF lock_i + 1 > Len(locks) THEN "scan" ELSE "scan_locks"
    /\ UNCHANGED <<exc, snapshot_ids, subscription_names, pool_fn, futures,
                   progress, valid_snapshots, pre_validation_results,
                   deletion_results, results, resource_groups, scan_started,
                   cur_pair, locks, ds_removed_locks, current_subscription,
                   restore_i, restore_results, restored_locks,
                   restored_returned>>
    /\ UNCHANGED <<active_subscription, confirm>>
    /\ UNCHANGED <<retry_vars, run_vars, create_vars, validate_vars>>

\* delete_snapshots, lines 604-607: the scan returned, the deletions are submitted
ScanReturn ==
    /\ pc = "scan"
    /\ resource_groups \subseteq scan_started
    /\ ds_removed_locks' = removed_locks
    /\ pool_fn' = "delete_snapshot"
    /\ futures' = Submit(valid_snapshots)
    /\ progress' = 0
    /\ pc' = "delete"
    /\ UNCHANGED <<exc, snapshot_ids, subscription_names, valid_snapshots,
                   pre_validation_results, deletion_results, results,
                   resource_groups, scan_started, cur_pair, locks, lock_i,
                   removed_locks, current_subscription, restore_i,
                   restore_results, restored_locks, restored_returned,
                   cloud_locks, issued>>
    /\ UNCHANGED <<active_subscription, misdirected, confirm>>
    /\ UNCHANGED <<retry_vars, run_vars, create_vars, validate_vars>>

\* delete_valid_snapshots: one turn of the as_completed loop
CollectDeletion(i) ==
    /\ pc = "delete"
    /\ futures[i].st = "done"
    /\ futures' = [futures EXCEPT ![i].st = "collected"]
    /\ deletion_results' = FoldDeletion(deletion_results, futures[i].id,
                                        subscription_names, futures[i].res)
    /\ progress' = Advanced(progress, futures[i].res)
    /\ UNCHANGED <<pc, exc, snapshot_ids, subscription_names, pool_fn,
                   valid_snapshots, pre_validation_results, results,
                   resource_groups, scan_started, cur_pair, locks, lock_i,
                   removed_locks, ds_removed_locks, current_subscription,
                   restore_i, restore_results, restored_locks,
                   restored_returned, cloud_locks, issued>>
    /\ UNCHANGED <<active_subscription, misdirected, confirm>>
    /\ UNCHANGED <<retry_vars, run_vars, create_vars, validate_vars>>

\* delete_snapshots, lines 607-610: the pool returned, restore_scope_locks starts
DeleteReturn ==
    /\ pc = "delete"
    /\ PoolDrained
    /\ current_subscription' = None
    /\ restore_i' = 1
    /\ restored_locks' = 0
    /\ pc' = "restore"
    /\ UNCHANGED <<exc, snapshot_ids, subscription_names, pool_fn, futures,
                   progress, valid_snapshots, pre_validation_results,
                   deletion_results, results, resource_groups, scan_started,
                   cur_pair, locks, lock_i, removed_locks, ds_removed_locks,
                   restore_results, restored_returned, cloud_locks, issued>>
    /\ UNCHANGED <<active_subscription, misdirected, confirm>>
    /\ UNCHANGED <<retry_vars, run_vars, create_vars, validate_vars>>

\* restore_scope_locks, lines 408-409: next record, switch_subscription
RestoreSwitch ==
    /\ pc = "restore"
    /\ restore_i <= Len(ds_removed_locks)
    /\ LET subscription_id == ds_removed_locks[restore_i][1] IN
       IF NeedsSwitch(subscription_id, current_subscription)
       THEN /\ issued' = Issue(issued, Cmd("account set", subscription_id, None))
            /\ \E out \in SwitchOutcomes :
                  IF out = "nonzero"
                  THEN /\ pc' = "exited"
                       /\ exc' = "CalledProcessError"
                       /\ UNCHANGED <<current_subscription, active_subscription>>
                  ELSE /\ current_subscription' = subscription_id
                       /\ active_subscription' =
                              IF out = "ok" THEN subscription_id ELSE active_subscription
                       /\ pc' = "restore_create"
                       /\ UNCHANGED exc
       ELSE /\ pc' = "restore_create"
            /\ UNCHANGED <<issued, current_subscription, active_subscription, exc>>
    /\ UNCHANGED <<snapshot_ids, subscription_names, pool_fn, futures, progress,
                   valid_snapshots, pre_validation_results, deletion_results,
                   results, resource_groups, scan_started, cur_pair, locks,
                   lock_i, removed_locks, ds_removed_locks, restore_i,
                   restore_results, restored_locks, restored_returned,
                   cloud_locks>>
    /\ UNCHANGED <<misdirected, confirm>>
    /\ UNCHANGED <<retry_vars, run_vars, create_vars, validate_vars>>

\* faulty variant of RestoreCount: the test of line 412 inverted
RestoreCountInverted(restored, out) == IF IsError(out) THEN restored + 1 ELSE restored

\* restore_scope_locks, lines 412-416: the counter
RestoreCount(restored, out) == IF ~IsError(out) THEN restored + 1 ELSE restored

\* restore_scope_locks, lines 410-416: az lock create for the record
RestoreCreate ==
    /\ pc = "restore_create"
    /\ LET rec == ds_removed_locks[restore_i] IN
       /\ issued' = Issue(issued, Cmd("lock create", rec[3], rec[2]))
       /\ misdirected' = Misdirect(misdirected, Cmd("lock create", rec[3], rec[2]),
                                   rec[1])
       /\ \E out \in CommandOutcomes :
             /\ restore_results' = Append(restore_results, out)
             /\ restored_locks' = RestoreCount(restored_locks, out)
             /\ cloud_locks' = IF IsError(out) THEN cloud_locks
                               ELSE WithLock(cloud_locks, <<active_subscription, rec[2]>>,
                                             rec[3])
    /\ restore_i' = restore_i + 1
    /\ pc' = "restore"
    /\ UNCHANGED <<exc, snapshot_ids, subscription_names, pool_fn, futures,
                   progress, valid_snapshots, pre_validation_results,
                   deletion_results, results, resource_groups, scan_started,
                   cur_pair, locks, lock_i, removed_locks, ds_removed_locks,
                   current_subscription, restored_returned>>
    /\ UNCHANGED <<active_subscription, confirm>>
    /\ UNCHANGED <<retry_vars, run_vars, create_vars, validate_vars>>

\* restore_scope_locks returns its counter (line 417, line 610)
RestoreReturn ==
    /\ pc = "restore"
    /\ restore_i > Len(ds_removed_locks)
    /\ restored_returned' = restored_locks
    /\ pc' = "merge"
    /\ UNCHANGED <<exc, snapshot_ids, subscription_names, pool_fn, futures,
                   progress, valid_snapshots, pre_validation_results,
                   deletion_results, results, resource_groups, scan_started,
                   cur_pair, locks, lock_i, removed_locks, ds_removed_locks,
                   current_subscription, restore_i, restore_results,
                   restored_locks, cloud_locks, issued>>
    /\ UNCHANGED <<active_subscription, misdirected, confirm>>
    /\ UNCHANGED <<retry_vars, run_vars, create_vars, validate_vars>>

\* delete_snapshots, lines 613-616: the merge of the two aggregates
MergeResults ==
    /\ pc = "merge"
    /\ results' = Merge(pre_validation_results, deletion_results)
    /\ pc' = "done"
    /\ UNCHANGED <<exc, snapshot_ids, subscription_names, pool_fn, futures,
                   progress, valid_snapshots, pre_validation_results,
                   deletion_results, resource_groups, scan_started, cur_pair,
                   locks, lock_i, removed_locks, ds_removed_locks,
                   current_subscription, restore_i, restore_results,
                   restored_locks, restored_returned, cloud_locks, issued>>
    /\ UNCHANGED <<active_subscription, misdirected, confirm>>
    /\ UNCHANGED <<retry_vars, run_vars, create_vars, validate_vars>>

\* Ctrl-C: KeyboardInterrupt in the main thread, caught only at lines 747-748
InFlight == {"prevalidate", "scan", "scan_list", "scan_locks", "delete",
             "restore", "restore_create", "merge"}

Interrupt ==
    /\ pc \in InFlight
    /\ pc' = "exited"
    /\ exc' = "KeyboardInterrupt"
    /\ UNCHANGED <<snapshot_ids, subscription_names, pool_fn, futures, progress,
                   valid_snapshots, pre_validation_results, deletion_results,
                   results, resource_groups, scan_started, cur_pair, locks,
                   lock_i, removed_locks, ds_removed_locks,
                   current_subscription, restore_i, restore_results,
                   restored_locks, restored_returned, cloud_locks, issued>>
    /\ UNCHANGED <<active_subscription, misdirected, confirm>>
    /\ UNCHANGED <<retry_vars, run_vars, create_vars, validate_vars>>

Next ==
    \/ StartPreValidate
    \/ \E i \in 1..Len(futures) : WorkerStart(i)
    \/ \E i \in 1..Len(futures) : WorkerFinish(i)
    \/ \E i \in 1..Len(futures) : CollectPreValidation(i)
    \/ PreValidateReturn
    \/ \E pair \in resource_groups : ScanSwitch(pair)
    \/ ScanList
    \/ ScanLock
    \/ ScanReturn
    \/ \E i \in 1..Len(futures) : CollectDeletion(i)
    \/ DeleteReturn
    \/ RestoreSwitch
    \/ RestoreCreate
    \/ RestoreReturn
    \/ MergeResults
    \/ Interrupt

Spec == Init /\ [][Next]_vars

(***************************************************************************)
(* The deletion run with input files around the confirmation threshold.    *)
(***************************************************************************)
\* files of ConfirmThreshold - 1 up to ConfirmThreshold + MaxOver lines; the
\* content of the lines plays no part in lines 589-593
LongLists ==
    { [i \in 1..n |-> IdShort] : n \in (ConfirmThreshold - 1)..(ConfirmThreshold + MaxOver) }

InitConfirm ==
    /\ pc = "start"
    /\ exc = "none"
    /\ snapshot_ids \in InputLists \cup LongLists
    /\ subscription_names \in SubscriptionNameChoices
    /\ pool_fn = "none"
    /\ futures = <<>>
    /\ progress = 0
    /\ valid_snapshots = <<>>
    /\ pre_validation_results = <<>>
    /\ deletion_results = <<>>
    /\ results = <<>>
    /\ resource_groups = {}
    /\ scan_started = {}
    /\ cur_pair = <<None, None>>
    /\ locks = <<>>
    /\ lock_i = 0
    /\ removed_locks = <<>>
    /\ ds_removed_locks = <<>>
    /\ current_subscription = None
    /\ restore_i = 0
    /\ restore_results = <<>>
    /\ restored_locks = 0
    /\ restored_returned = -1
    /\ cloud_locks = InitialLocks
    /\ issued = <<>>
    /\ active_subscription = DefaultSubscription
    /\ misdirected = {}
    /\ confirm = Unasked
    /\ RetryIdle
    /\ RunIdle
    /\ CreateIdle
    /\ ValidateIdle

\* the run of a file of more than MaxIds lines is followed up to the
\* submission of its pre-validation pool; shorter files run to their end
NextConfirm ==
    \/ StartPreValidate
    \/ Len(snapshot_ids) <= MaxIds /\ Next

SpecConfirm == InitConfirm /\ [][NextConfirm]_vars

(***************************************************************************)
(* run_az_command_async(command, max_retries=3, delay=5).                  *)
(***************************************************************************)
IsSpace(c) == c = " "

RECURSIVE LStrip(_)
LStrip(s) == IF s # <<>> /\ IsSpace(Head(s)) THEN LStrip(Tail(s)) ELSE s

RECURSIVE RStrip(_)
RStrip(s) ==
    IF s # <<>> /\ IsSpace(s[Len(s)]) THEN RStrip(SubSeq(s, 1, Len(s) - 1)) ELSE s

\* bytes.decode().strip()
Strip(s) == RStrip(LStrip(s))

\* what one run of the subprocess can give: stdout, stderr, returncode
StdoutChoices == { <<"x">>, <<" ", "x", " ">> }

StderrChoices == { <<"e">>, <<"f", " ">> }

ReturnCodes == {0, 1, 2}

ProcessOutcomes ==
    [stdout : StdoutChoices, stderr : StderrChoices, returncode : ReturnCodes]

\* line 57: the attempt succeeded
Succeeded(outcome) == outcome.returncode = 0

\* line 58: the value returned for a successful attempt
SuccessResult(outcome) ==
    <<Strip(outcome.stdout), Strip(outcome.stderr), outcome.returncode>>

\* faulty variant of FailureResult: stderr and exit code of the first attempt
FailureResultFirst(made) == <<<<>>, Strip(made[1].stderr), made[1].returncode>>

\* line 65: the value returned when the loop ends; stderr and process are
\* those of the last attempt made
FailureResult(made) ==
    <<<<>>, Strip(made[Len(made)].stderr), made[Len(made)].returncode>>

\* faulty variant of ShouldSleep: the delay is taken after the last attempt too
ShouldSleepAlways(n, retries) == n < retries

\* line 62: a delay follows the failed attempt
ShouldSleep(n, retries) == n < retries - 1

\* line 50: range(max_retries) has a next value after n
LoopContinues(n, retries) == n + 1 < retries

DeleteIdle ==
    /\ pc = "idle"
    /\ exc = "none"
    /\ snapshot_ids = <<>>
    /\ subscription_names = <<>>
    /\ pool_fn = "none"
    /\ futures = <<>>
    /\ progress = 0
    /\ valid_snapshots = <<>>
    /\ pre_validation_results = <<>>
    /\ deletion_results = <<>>
    /\ results = <<>>
    /\ resource_groups = {}
    /\ scan_started = {}
    /\ cur_pair = <<None, None>>
    /\ locks = <<>>
    /\ lock_i = 0
    /\ removed_locks = <<>>
    /\ ds_removed_locks = <<>>
    /\ current_subscription = None
    /\ restore_i = 0
    /\ restore_results = <<>>
    /\ restored_locks = 0
    /\ restored_returned = -1
    /\ cloud_locks = InitialLocks
    /\ issued = <<>>
    /\ active_subscription = DefaultSubscription
    /\ misdirected = {}
    /\ confirm = Unasked

\* the call: every call site passes the default max_retries; the model lets
\* it range over 1..MaxRetries
InitRetry ==
    /\ DeleteIdle
    /\ RunIdle
    /\ CreateIdle
    /\ ValidateIdle
    /\ r_pc = "attempt"
    /\ max_retries \in 1..MaxRetries
    /\ attempt = 0
    /\ attempts = <<>>
    /\ sleeps = <<>>
    /\ r_result = None

\* lines 51-64: one attempt, create_subprocess_shell and communicate;
\* outcomes is what the process of this command can give
AttemptStep(outcomes) ==
    /\ r_pc = "attempt"
    /\ \E outcome \in outcomes :
          /\ attempts' = Append(attempts, outcome)
          /\ IF Succeeded(outcome)
             THEN /\ r_result' = SuccessResult(outcome)
                  /\ r_pc' = "returned"
                  /\ UNCHANGED attempt
             ELSE /\ UNCHANGED r_result
                  /\ IF ShouldSleep(attempt, max_retries)
                     THEN r_pc' = "sleep" /\ UNCHANGED attempt
                     ELSE IF LoopContinues(attempt, max_retries)
                     THEN r_pc' = "attempt" /\ attempt' = attempt + 1
                     ELSE r_pc' = "exhausted" /\ UNCHANGED attempt
    /\ UNCHANGED <<max_retries, sleeps>>

\* line 64: asyncio.sleep(delay), then the next value of the loop
SleepStep ==
    /\ r_pc = "sleep"
    /\ sleeps' = Append(sleeps, Len(attempts))
    /\ IF LoopContinues(attempt, max_retries)
       THEN r_pc' = "attempt" /\ attempt' = attempt + 1
       ELSE r_pc' = "exhausted" /\ UNCHANGED attempt
    /\ UNCHANGED <<max_retries, attempts, r_result>>

\* line 65: the loop is over
FailureStep ==
    /\ r_pc = "exhausted"
    /\ r_result' = FailureResult(attempts)
    /\ r_pc' = "returned"
    /\ UNCHANGED <<max_retries, attempt, attempts, sleeps>>

\* the three steps of a call made on its own
RunAttempt ==
    /\ AttemptStep(ProcessOutcomes)
    /\ UNCHANGED <<delete_vars, run_vars, create_vars, validate_vars>>

Sleep ==
    /\ SleepStep
    /\ UNCHANGED <<delete_vars, run_vars, create_vars, validate_vars>>

ReturnFailure ==
    /\ FailureStep
    /\ UNCHANGED <<delete_vars, run_vars, create_vars, validate_vars>>

NextRetry == RunAttempt \/ Sleep \/ ReturnFailure

\* each subprocess and each delay ends: the coroutine is always resumed
SpecRetry == InitRetry /\ [][NextRetry]_vars /\ WF_vars(NextRetry)

(***************************************************************************)
(* create_snapshots and process_vm.                                        *)
(***************************************************************************)
RECURSIVE SplitWsFrom(_, _, _, _)
SplitWsFrom(s, i, cur, acc) ==
    IF i > Len(s) THEN (IF cur = <<>> THEN acc ELSE Append(acc, cur))
    ELSE IF IsSpace(s[i])
    THEN SplitWsFrom(s, i + 1, <<>>, IF cur = <<>> THEN acc ELSE Append(acc, cur))
    ELSE SplitWsFrom(s, i + 1, Append(cur, s[i]), acc)

\* line.split(): the fields between runs of whitespace
SplitWs(s) == SplitWsFrom(s, 1, <<>>, <<>>)

\* "/s/A/v a": resource id of subscription A, VM name a
LineA == <<"/", "s", "/", "A", "/", "v", " ", "a">>

\* "/s/B/w  b": resource id of subscription B, VM name b, two blanks between
LineB == <<"/", "s", "/", "B", "/", "w", " ", " ", "b">>

\* "bad": one field
LineOneField == <<"b", "a", "d">>

\* "x c": two fields, the first without any slash
LineNoSlash == <<"x", " ", "c">>

\* "// d": two fields, the first with an empty third segment
LineNoSubscription == <<"/", "/", " ", "d">>

VmLineUniverse == {LineA, LineB, LineOneField, LineNoSlash, LineNoSubscription}

\* the stripped non-empty lines of snapshot_vmlist.txt
VmLists == UNION { [1..n -> VmLineUniverse] : n \in 0..MaxVms }

InvalidLineFormat ==
    <<"I", "n", "v", "a", "l", "i", "d", " ", "l", "i", "n", "e", " ", "f",
      "o", "r", "m", "a", "t">>

FailedSubscriptionId ==
    <<"F", "a", "i", "l", "e", "d", " ", "t", "o", " ", "g", "e", "t", " ",
      "s", "u", "b", "s", "c", "r", "i", "p", "t", "i", "o", "n", " ", "I",
      "D">>

FailedSetSubscription ==
    <<"F", "a", "i", "l", "e", "d", " ", "t", "o", " ", "s", "e", "t", " ",
      "s", "u", "b", "s", "c", "r", "i", "p", "t", "i", "o", "n", " ", "I",
      "D">>

FailedDiskId ==
    <<"F", "a", "i", "l", "e", "d", " ", "t", "o", " ", "g", "e", "t", " ",
      "d", "i", "s", "k", " ", "I", "D">>

FailedResourceGroup ==
    <<"F", "a", "i", "l", "e", "d", " ", "t", "o", " ", "g", "e", "t", " ",
      "r", "e", "s", "o", "u", "r", "c", "e", " ", "g", "r", "o", "u", "p">>

FailedCreate ==
    <<"F", "a", "i", "l", "e", "d", " ", "t", "o", " ", "c", "r", "e", "a",
      "t", "e", " ", "s", "n", "a", "p", "s", "h", "o", "t">>

\* the chain of process_vm
Steps == <<"set", "disk", "group", "create">>

StepIndex(step) == CHOOSE k \in 1..Len(Steps) : Steps[k] = step

\* what process_vm returns as status when the step failed
FailedText(step) ==
    IF step = "set" THEN FailedSetSubscription
    ELSE IF step = "disk" THEN FailedDiskId
    ELSE IF step = "group" THEN FailedResourceGroup
    ELSE FailedCreate

\* f"RH_{chg_number}_{vm_name}_{timestamp}" for the CHG number and the
\* timestamp of the run
SnapshotName(vm_name) == <<"R", "H", "_">> \o vm_name

\* output of 'az snapshot create': an object with an id, an object without,
\* and text that is not JSON
JsonWithId == <<"{", "S", "}">>

JsonWithoutId == <<"{", "}">>

NotJson == <<"x">>

\* json.loads(stdout) succeeds: the text is an object
ParsesAsJson(text) ==
    Len(text) >= 2 /\ text[1] = "{" /\ text[Len(text)] = "}"

\* snapshot_data.get('id')
JsonId(text) == SubSeq(text, 2, Len(text) - 1)

\* what one run of the command of the step can give
CreateOutcomes(step) ==
    { [stdout |-> <<>>, stderr |-> <<"e">>, returncode |-> 1] }
        \cup { [stdout |-> o, stderr |-> <<>>, returncode |-> 0] :
                 o \in IF step = "set" THEN { <<>> }
                       ELSE IF step = "disk" THEN { <<"d">>, <<>> }
                       ELSE IF step = "group" THEN { <<"g">> }
                       ELSE { JsonWithId, JsonWithoutId, NotJson, <<>> } }

\* faulty variant of WriteSnapshotRid: output that does not parse is written
\* to the file as it is
WriteSnapshotRidRaw(list, stdout) ==
    IF ParsesAsJson(stdout)
    THEN (IF JsonId(stdout) # <<>> THEN Append(list, JsonId(stdout)) ELSE list)
    ELSE Append(list, stdout)

\* process_vm, lines 170-182: snap_rid_list.txt after the output of a
\* successful 'az snapshot create' was looked at
WriteSnapshotRid(list, stdout) ==
    IF ParsesAsJson(stdout) /\ JsonId(stdout) # <<>>
    THEN Append(list, JsonId(stdout))
    ELSE list

\* faulty variant of StepFailed: the test after the resource-group command
\* is missing
StepFailedDiskOnly(step, result) ==
    IF step = "group" THEN FALSE
    ELSE result[3] # 0 \/ (step = "disk" /\ result[1] = <<>>)

\* faulty variant of StepFailed: the test after 'az account set' is missing
StepFailedAfterSet(step, result) ==
    IF step = "set" THEN FALSE
    ELSE result[3] # 0 \/ (step = "disk" /\ result[1] = <<>>)

\* lines 134, 143, 152, 163: the test made on (stdout, stderr, returncode)
StepFailed(step, result) ==
    result[3] # 0 \/ (step = "disk" /\ result[1] = <<>>)

\* result[1].startswith("Failed")
StartsWithFailed(status) ==
    Len(status) >= 6 /\ SubSeq(status, 1, 6) = <<"F", "a", "i", "l", "e", "d">>

\* create_snapshots, lines 216-219
IsSuccess(result) == ~StartsWithFailed(result[2])

InitCreate ==
    /\ DeleteIdle
    /\ RetryIdle
    /\ RunIdle
    /\ ValidateIdle
    /\ c_pc = "loop"
    /\ c_exc = "none"
    /\ vm_list \in VmLists
    /\ c_i = 1
    /\ c_step = "none"
    /\ c_issued = {}
    /\ c_calls = <<>>
    /\ successful_snapshots = <<>>
    /\ failed_snapshots = <<>>
    /\ c_progress = 0
    /\ c_subscription = None
    /\ snap_rid_list = <<>>

\* run_az_command_async is called: the retry loop starts
CallStarts ==
    /\ r_pc' = "attempt"
    /\ attempt' = 0
    /\ attempts' = <<>>
    /\ sleeps' = <<>>
    /\ r_result' = None
    /\ UNCHANGED max_retries

\* create_snapshots, lines 213-223: process_vm returned result for the line
LineDone(result) ==
    /\ IF IsSuccess(result)
       THEN /\ successful_snapshots' = Append(successful_snapshots, result)
            /\ UNCHANGED failed_snapshots
       ELSE /\ failed_snapshots' = Append(failed_snapshots, result)
            /\ UNCHANGED successful_snapshots
    /\ c_progress' = c_progress + 1
    /\ c_i' = c_i + 1
    /\ c_pc' = "loop"
    /\ UNCHANGED c_exc

\* create_snapshots, lines 212-223, and process_vm, lines 122-133: the next
\* line is split and process_vm runs up to its first command
NextLine ==
    /\ c_pc = "loop"
    /\ c_i <= Len(vm_list)
    /\ c_calls' = <<>>
    /\ LET line   == vm_list[c_i]
           fields == SplitWs(line)
       IN  IF Len(fields) # 2
           THEN /\ failed_snapshots' = Append(failed_snapshots, <<line, InvalidLineFormat>>)
                /\ c_progress' = c_progress + 1
                /\ c_i' = c_i + 1
                /\ UNCHANGED <<c_pc, c_exc, c_step, successful_snapshots, retry_vars>>
           ELSE IF Len(Split(fields[1])) < 3
           THEN /\ c_pc' = "exited"
                /\ c_exc' = "IndexError"
                /\ UNCHANGED <<c_i, c_step, c_progress, successful_snapshots,
                               failed_snapshots, retry_vars>>
           ELSE IF Split(fields[1])[3] = <<>>
           THEN /\ LineDone(<<fields[2], FailedSubscriptionId>>)
                /\ UNCHANGED <<c_step, retry_vars>>
           ELSE /\ c_pc' = "call"
                /\ c_step' = "set"
                /\ CallStarts
                /\ UNCHANGED <<c_exc, c_i, c_progress, successful_snapshots,
                               failed_snapshots>>
    /\ UNCHANGED <<vm_list, c_issued, c_subscription, snap_rid_list>>
    /\ UNCHANGED <<delete_vars, run_vars, validate_vars>>

\* run_az_command_async inside process_vm: one attempt of the command
CallAttempt ==
    /\ c_pc = "call"
    /\ AttemptStep(CreateOutcomes(c_step))
    /\ c_issued' = c_issued \cup {<<c_i, c_step>>}
    /\ UNCHANGED <<c_pc, c_exc, vm_list, c_i, c_step, c_calls, successful_snapshots,
                   failed_snapshots, c_progress, c_subscription, snap_rid_list>>
    /\ UNCHANGED <<delete_vars, run_vars, validate_vars>>

\* run_az_command_async inside process_vm: the delay between two attempts
CallSleep ==
    /\ c_pc = "call"
    /\ SleepStep
    /\ UNCHANGED <<create_vars, delete_vars, run_vars, validate_vars>>

\* run_az_command_async inside process_vm: the attempts are used up
CallExhausted ==
    /\ c_pc = "call"
    /\ FailureStep
    /\ UNCHANGED <<create_vars, delete_vars, run_vars, validate_vars>>

\* process_vm, lines 133-186: the command of the step returned
StepReturn ==
    /\ c_pc = "call"
    /\ r_pc = "returned"
    /\ c_calls' = Append(c_calls, [step |-> c_step, result |-> r_result])
    /\ c_subscription' = IF c_step = "set" /\ r_result[3] = 0
                         THEN Split(SplitWs(vm_list[c_i])[1])[3]
                         ELSE c_subscription
    /\ LET vm_name == SplitWs(vm_list[c_i])[2] IN
       IF StepFailed(c_step, r_result)
       THEN /\ LineDone(<<vm_name, FailedText(c_step)>>)
            /\ r_pc' = "idle"
            /\ UNCHANGED <<c_step, snap_rid_list, max_retries, attempt, attempts,
                           sleeps, r_result>>
       ELSE IF c_step = "create"
       THEN /\ snap_rid_list' = WriteSnapshotRid(snap_rid_list, r_result[1])
            /\ LineDone(<<vm_name, SnapshotName(vm_name)>>)
            /\ r_pc' = "idle"
            /\ UNCHANGED <<c_step, max_retries, attempt, attempts, sleeps, r_result>>
       ELSE /\ c_step' = Steps[StepIndex(c_step) + 1]
            /\ CallStarts
            /\ UNCHANGED <<c_pc, c_exc, c_i, c_progress, successful_snapshots,
                           failed_snapshots, snap_rid_list>>
    /\ UNCHANGED <<vm_list, c_issued>>
    /\ UNCHANGED <<delete_vars, run_vars, validate_vars>>

\* create_snapshots, lines 225 and after: the loop is over
CreateFinish ==
    /\ c_pc = "loop"
    /\ c_i > Len(vm_list)
    /\ c_pc' = "done"
    /\ UNCHANGED <<c_exc, vm_list, c_i, c_step, c_issued, c_calls,
                   successful_snapshots, failed_snapshots, c_progress,
                   c_subscription, snap_rid_list>>
    /\ UNCHANGED <<delete_vars, retry_vars, run_vars, validate_vars>>

NextCreate ==
    \/ NextLine
    \/ CallAttempt
    \/ CallSleep
    \/ CallExhausted
    \/ StepReturn
    \/ CreateFinish

SpecCreate == InitCreate /\ [][NextCreate]_vars

(***************************************************************************)
(* run_az_command(command).                                                *)
(***************************************************************************)
\* the calls of the program: the argument vector of switch_subscription and
\* the shell strings of the other callers
RunCalls ==
    { [form |-> "list", cmd |-> "account set"] }
        \cup { [form |-> "shell", cmd |-> c] :
                 c \in {"account show", "account list", "snapshot show",
                        "lock list", "lock delete", "lock create",
                        "snapshot delete"} }

\* the process cannot be started: subprocess.run or Popen raises OSError
NoStart == [started |-> FALSE, stdout |-> <<>>, stderr |-> <<>>, returncode |-> 0]

\* what the operating system does with the command
RunEnvs ==
    {NoStart} \cup { [started |-> TRUE, stdout |-> o.stdout, stderr |-> o.stderr,
                      returncode |-> o.returncode] : o \in ProcessOutcomes }

\* str(e) of the OSError
NoStartText == <<"n", "o", " ", "a", "z">>

ErrorPrefix == <<"E", "r", "r", "o", "r", ":", " ">>

\* f"Error: {text}"
ErrorTagged(text) == ErrorPrefix \o text

\* value.startswith("Error:")
StartsWithError(value) ==
    Len(value) >= 6 /\ SubSeq(value, 1, 6) = SubSeq(ErrorPrefix, 1, 6)

\* how the call ends: a returned value, or an exception raised to the caller
run_az_command(command, env) ==
    IF ~env.started
    THEN [raised |-> FALSE, exception |-> "none", value |-> ErrorTagged(NoStartText)]
    ELSE IF command.form = "list"
    THEN IF env.returncode # 0
         THEN [raised |-> TRUE, exception |-> "CalledProcessError", value |-> None]
         ELSE [raised |-> FALSE, exception |-> "none", value |-> Strip(env.stdout)]
    ELSE IF env.returncode # 0
         THEN [raised |-> FALSE, exception |-> "none",
               value |-> ErrorTagged(Strip(env.stderr))]
         ELSE [raised |-> FALSE, exception |-> "none", value |-> Strip(env.stdout)]

InitRun ==
    /\ DeleteIdle
    /\ RetryIdle
    /\ CreateIdle
    /\ ValidateIdle
    /\ run_pc = "call"
    /\ run_command \in RunCalls
    /\ run_env \in RunEnvs
    /\ run_count = 0
    /\ run_result = [raised |-> FALSE, exception |-> "none", value |-> None]

\* lines 69-73: subprocess.run or Popen(...).communicate(), called once
RunLaunch ==
    /\ run_pc = "call"
    /\ run_count' = run_count + 1
    /\ run_pc' = "ran"
    /\ UNCHANGED <<run_command, run_env, run_result>>
    /\ UNCHANGED <<delete_vars, retry_vars, create_vars, validate_vars>>

\* lines 70-83: the value returned or the exception raised
RunReturn ==
    /\ run_pc = "ran"
    /\ run_result' = run_az_command(run_command, run_env)
    /\ run_pc' = IF run_az_command(run_command, run_env).raised
                 THEN "raised" ELSE "returned"
    /\ UNCHANGED <<run_command, run_env, run_count>>
    /\ UNCHANGED <<delete_vars, retry_vars, create_vars, validate_vars>>

NextRun == RunLaunch \/ RunReturn

SpecRun == InitRun /\ [][NextRun]_vars

(***************************************************************************)
(* validate_snapshots(): one 'az snapshot show' per line of the file, a    *)
(* snapshot_info per line, and the counts of the summary.                  *)
(***************************************************************************)
\* the lines of the file, in every order
ValidateLists == UNION { [1..n -> SnapshotIdUniverse] : n \in 0..MaxIds }

\* output of 'az snapshot show --query {name, resourceGroup, timeCreated,
\* diskSizeGb, provisioningState} -o json': the object of the projection
ShowJson == <<"{", "n", "g", "t", "5", "S", "}">>

\* what the operating system does with 'az snapshot show': the process is not
\* started; it exits with a non-zero code; it exits with 0 and prints the
\* object, text that is not JSON, white space, or nothing
ShowEnvs ==
    {NoStart}
        \cup { [started |-> TRUE, stdout |-> <<>>, stderr |-> <<"e">>, returncode |-> 1] }
        \cup { [started |-> TRUE, stdout |-> o, stderr |-> <<>>, returncode |-> 0] :
                 o \in { ShowJson \o <<" ">>, <<" ", "x", " ">>, <<" ">>, <<>> } }

ShowCommand == [form |-> "shell", cmd |-> "snapshot show"]

\* json.loads(details) of lines 307-315: the five values of the object
ParseDetails(text) ==
    [name |-> text[2], resource_group |-> text[3], time_created |-> text[4],
     size_gb |-> text[5], state |-> text[6]]

\* faulty variant of SnapshotInfo: 'exists' is set before the output is parsed
SnapshotInfoEager(snapshot_id, details) ==
    IF details # <<>> /\ ~StartsWithError(details)
    THEN IF ParsesAsJson(details)
         THEN [id |-> snapshot_id, exists |-> TRUE] @@ ParseDetails(details)
         ELSE [id |-> snapshot_id, exists |-> TRUE]
    ELSE [id |-> snapshot_id, exists |-> FALSE]

\* lines 301-317: snapshot_info for the value that run_az_command returned
SnapshotInfo(snapshot_id, details) ==
    IF details # <<>> /\ ~StartsWithError(details)
    THEN IF ParsesAsJson(details)
         THEN [id |-> snapshot_id, exists |-> TRUE] @@ ParseDetails(details)
         ELSE [id |-> snapshot_id, exists |-> FALSE]
    ELSE [id |-> snapshot_id, exists |-> FALSE]

\* sum(1 for s in validated_snapshots if s['exists'] == flag)
CountExists(snapshots, flag) ==
    Cardinality({k \in 1..Len(snapshots) : snapshots[k].exists = flag})

InitValidate ==
    /\ DeleteIdle
    /\ RetryIdle
    /\ RunIdle
    /\ CreateIdle
    /\ v_pc = "start"
    /\ v_snapshot_ids \in ValidateLists
    /\ v_i = 1
    /\ v_envs = <<>>
    /\ v_details = None
    /\ validated_snapshots = <<>>
    /\ v_progress = 0
    /\ v_summary = <<>>

\* lines 290-295: an empty file ends the function, else the loop starts
ValidateStart ==
    /\ v_pc = "start"
    /\ v_pc' = IF v_snapshot_ids = <<>> THEN "returned" ELSE "loop"
    /\ UNCHANGED <<v_snapshot_ids, v_i, v_envs, v_details, validated_snapshots,
                   v_progress, v_summary>>
    /\ UNCHANGED <<delete_vars, retry_vars, run_vars, create_vars>>

\* lines 300-303: the show command of the next line, through run_az_command,
\* which returns a value for every outcome of a shell-string command
ValidateShow ==
    /\ v_pc = "loop"
    /\ v_i <= Len(v_snapshot_ids)
    /\ \E env \in ShowEnvs :
          /\ v_envs' = Append(v_envs, env)
          /\ v_details' = run_az_command(ShowCommand, env).value
    /\ v_pc' = "details"
    /\ UNCHANGED <<v_snapshot_ids, v_i, validated_snapshots, v_progress, v_summary>>
    /\ UNCHANGED <<delete_vars, retry_vars, run_vars, create_vars>>

\* lines 305-320: the record of the line is built and appended
ValidateRecord ==
    /\ v_pc = "details"
    /\ validated_snapshots' =
           Append(validated_snapshots, SnapshotInfo(v_snapshot_ids[v_i], v_details))
    /\ v_progress' = v_progress + 1
    /\ v_i' = v_i + 1
    /\ v_pc' = "loop"
    /\ UNCHANGED <<v_snapshot_ids, v_envs, v_details, v_summary>>
    /\ UNCHANGED <<delete_vars, retry_vars, run_vars, create_vars>>

\* lines 322-351: the loop is over, the table and the counts are printed
ValidateSummary ==
    /\ v_pc = "loop"
    /\ v_i > Len(v_snapshot_ids)
    /\ v_summary' = << Len(v_snapshot_ids),
                       CountExists(validated_snapshots, TRUE),
                       CountExists(validated_snapshots, FALSE) >>
    /\ v_pc' = "done"
    /\ UNCHANGED <<v_snapshot_ids, v_i, v_envs, v_details, validated_snapshots,
                   v_progress>>
    /\ UNCHANGED <<delete_vars, retry_vars, run_vars, create_vars>>

NextValidate == ValidateStart \/ ValidateShow \/ ValidateRecord \/ ValidateSummary

SpecValidate == InitValidate /\ [][NextValidate]_vars

(***************************************************************************)
(* Properties of the deletion run (specification Spec).                    *)
(***************************************************************************)
BeforeScanReturn == {"start", "prevalidate", "scan", "scan_list", "scan_locks"}

\* 'az lock create' was issued for the record (subscription, group, name)
CreateIssued(rec) == Count(issued, Cmd("lock create", rec[3], rec[2]))

\* 'az lock list' was issued for the pair's resource group
Listed(pair) == Count(issued, Cmd("lock list", pair[2], None)) >= 1

\* the run is over without a user interrupt: it finished or an exception ended it
EndedUninterrupted == pc = "done" \/ (pc = "exited" /\ exc # "KeyboardInterrupt")

\* C1: when a run that no user interrupt cut short is over, every lock that
\* check_and_remove_scope_locks removed has had exactly one 'az lock create'
\* issued for its name and resource group.
C1_RemovedLocksRestoredOnce ==
    EndedUninterrupted =>
        \A k \in 1..Len(removed_locks) : CreateIssued(removed_locks[k]) = 1

\* C2: a run ended by a user interrupt after at least one lock was removed
\* has issued 'az lock create' for every lock that was removed.
C2_InterruptStillRestores ==
    (pc = "exited" /\ exc = "KeyboardInterrupt") =>
        \A k \in 1..Len(removed_locks) : CreateIssued(removed_locks[k]) >= 1

\* C3: once check_and_remove_scope_locks is over (it returned, or a failure of
\* the switch, of the lock list or of a lock delete ended it), every pair of
\* resource_groups has been scanned and the caller holds every lock removed.
C3_ScanSurvivesFailures ==
    (pc \notin BeforeScanReturn /\ exc # "KeyboardInterrupt") =>
        /\ \A pair \in resource_groups : Listed(pair)
        /\ ds_removed_locks = removed_locks

\* C4: once restore_scope_locks is over (it returned, or a failure ended it),
\* its loop has reached the last record of the list: a failure at one record
\* never leaves a later record unattempted.
C4_RestoreSurvivesFailures ==
    (restore_i >= 1 /\ EndedUninterrupted) => restore_i >= Len(ds_removed_locks)

\* C5: the counter of restore_scope_locks never exceeds the number of locks
\* recorded as removed, and the count it returns equals that number when no
\* 'az lock create' failed.
C5_RestoredCountBounded ==
    /\ restored_locks <= Len(ds_removed_locks)
    /\ restored_returned # -1 =>
          /\ restored_returned <= Len(ds_removed_locks)
          /\ (\A k \in 1..Len(restore_results) : ~IsError(restore_results[k]))
                => restored_returned = Len(ds_removed_locks)

\* C5 witness: two locks were removed, both creates succeeded, 2 is returned
C5_Witness ==
    /\ restored_returned = 2
    /\ Len(ds_removed_locks) = 2
    /\ \A k \in 1..Len(restore_results) : ~IsError(restore_results[k])

\* C6: a snapshot delete command is issued only after
\* check_and_remove_scope_locks has scanned every pair and returned, and a
\* lock create command is issued only when every delete worker of the pool
\* has finished.
C6_PhaseOrder ==
    /\ IssuedOps(issued, "snapshot delete") # {} =>
          /\ pc \notin BeforeScanReturn
          /\ \A pair \in resource_groups : Listed(pair)
          /\ ds_removed_locks = removed_locks
    /\ IssuedOps(issued, "lock create") # {} =>
          /\ pool_fn = "delete_snapshot"
          /\ Len(futures) = Len(valid_snapshots)
          /\ WorkersIdle

\* C6 witness: a lock is being restored after two delete workers ran
C6_Witness ==
    /\ IssuedOps(issued, "lock create") # {}
    /\ Cardinality(IssuedOps(issued, "snapshot delete")) = 2
    /\ removed_locks # <<>>

\* C9: after pre_validate_snapshots returned, its aggregate holds one payload
\* per submitted id; after delete_valid_snapshots returned, its aggregate
\* holds one payload per valid snapshot.
C9_OneOutcomePerId ==
    /\ pc \in {"scan", "scan_list", "scan_locks", "delete", "restore",
               "restore_create", "merge", "done"} =>
          PayloadCount(pre_validation_results) = Len(snapshot_ids)
    /\ pc \in {"restore", "restore_create", "merge", "done"} =>
          PayloadCount(deletion_results) = Len(valid_snapshots)

\* C9 witness: both passes returned; two ids were submitted, one of them
\* malformed, and the valid one went through the deletion pass
C9_Witness ==
    /\ pc = "done"
    /\ Len(snapshot_ids) = 2
    /\ Len(valid_snapshots) = 1
    /\ PayloadCount(pre_validation_results) = 2
    /\ PayloadCount(deletion_results) = 1
    /\ Bucket(pre_validation_results, Unknown, "invalid") # <<>>

AllTags == {"valid", "non-existent", "invalid", "error", "deleted", "failed"}

\* C10: after the merge, every bucket of the result is the bucket of the
\* pre-validation aggregate followed by the bucket of the deletion aggregate.
C10_MergeAdditive ==
    (pc = "done" /\ valid_snapshots # <<>>) =>
        \A k \in DOMAIN pre_validation_results \cup DOMAIN deletion_results :
            \A t \in AllTags :
                Bucket(results, k, t) =
                    Bucket(pre_validation_results, k, t) \o Bucket(deletion_results, k, t)

(***************************************************************************)
(* Properties of run_az_command_async (specification SpecRetry).           *)
(***************************************************************************)
SuccessfulAttempts == {i \in 1..Len(attempts) : Succeeded(attempts[i])}

FirstSuccess == CHOOSE i \in SuccessfulAttempts : \A j \in SuccessfulAttempts : i <= j

\* C7: when the call has returned, either some attempt among the first
\* max_retries exited 0 and the result is the stdout of the first such
\* attempt (decoded and stripped, as line 58 does) with exit code 0, or all
\* max_retries attempts failed and the result is empty stdout with the
\* stderr and exit code of the last attempt.
C7_RetryResult ==
    r_pc = "returned" =>
        IF SuccessfulAttempts # {}
        THEN /\ FirstSuccess <= max_retries
             /\ r_result[1] = Strip(attempts[FirstSuccess].stdout)
             /\ r_result[3] = 0
        ELSE /\ Len(attempts) = max_retries
             /\ r_result = <<<<>>, Strip(attempts[max_retries].stderr),
                             attempts[max_retries].returncode>>

\* C7 witness: fail, fail, succeed yields success
C7_Witness ==
    /\ r_pc = "returned"
    /\ max_retries = 3
    /\ Len(attempts) = 3
    /\ ~Succeeded(attempts[1]) /\ ~Succeeded(attempts[2]) /\ Succeeded(attempts[3])
    /\ r_result[3] = 0

\* the command ran at most max_retries times and never after an attempt that
\* exited 0; the k-th delay came right after the k-th attempt, never after
\* attempt max_retries, and on return every delay was followed by an attempt
RetrySafety ==
    /\ Len(attempts) <= max_retries
    /\ \A i \in SuccessfulAttempts : i = Len(attempts)
    /\ \A k \in 1..Len(sleeps) : sleeps[k] = k /\ sleeps[k] < max_retries
    /\ r_pc = "returned" => Len(sleeps) = Len(attempts) - 1

\* C8: the command runs at most max_retries times, never again after an
\* attempt that exited 0, a delay is taken only between two consecutive
\* attempts, and the call returns a result once every attempt terminates.
C8_BoundedRetry == []RetrySafety /\ <>(r_pc = "returned" /\ r_result # None)

\* C8 witness: three failed attempts, two delays, then the failure result
C8_Witness ==
    /\ r_pc = "returned"
    /\ max_retries = 3
    /\ Len(attempts) = 3
    /\ SuccessfulAttempts = {}
    /\ sleeps = <<1, 2>>

(***************************************************************************)
(* Properties of the two pooled passes (specification Spec).               *)
(***************************************************************************)
\* number of positions of the sequence s that hold x
Occurrences(s, x) == Cardinality({k \in 1..Len(s) : s[k] = x})

\* the aggregate the current pool writes to
PoolAggregate ==
    IF pool_fn = "delete_snapshot" THEN deletion_results ELSE pre_validation_results

\* futures of the current pool, for the id, that were collected after their
\* worker met an unexpected fault
CollectedFaults(id) ==
    {i \in 1..Len(futures) : /\ futures[i].id = id
                             /\ futures[i].st = "collected"
                             /\ futures[i].env = "fault"}

\* one turn of the as_completed loop of either pass, for future i
Collect(i) == CollectPreValidation(i) \/ CollectDeletion(i)

\* C11: in both pooled passes every worker that met an unexpected fault has,
\* once its future is collected, exactly one 'error' entry under 'Unknown'
\* that carries its id and the fault text, and collecting it leaves the
\* loop running: no exception leaves the pass.
C11_WorkerFaultRecorded ==
    /\ [](\A id \in SnapshotIdUniverse :
             Occurrences(Bucket(PoolAggregate, Unknown, "error"), <<id, FaultText>>)
                 = Cardinality(CollectedFaults(id)))
    /\ [][\A i \in 1..Len(futures) :
             (futures[i].env = "fault" /\ Collect(i)) => (pc' = pc /\ exc' = "none")]_vars

\* a finished run in which a worker of each pass met a fault
C11_Witness ==
    /\ pc = "done"
    /\ pool_fn = "delete_snapshot"
    /\ Bucket(pre_validation_results, Unknown, "error") # <<>>
    /\ \E id \in SnapshotIdUniverse : CollectedFaults(id) # {}

\* snapshot_id.split('/') of every id of the inputs
SegmentsOf == [id \in SnapshotIdUniverse |-> Split(id)]

\* the id has fewer than 9 slash-delimited segments
TooShort(id) == Len(SegmentsOf[id]) < 9

\* pre_validate_snapshots has returned (or the deletion pass already runs)
PreValidationOver ==
    \/ pool_fn = "delete_snapshot"
    \/ pool_fn = "process_snapshot" /\ PoolDrained

\* occurrences of the id whose future the pre-validation loop has consumed
PreValidated(id) ==
    IF pool_fn = "process_snapshot"
    THEN Cardinality({i \in 1..Len(futures) :
                         futures[i].id = id /\ futures[i].st = "collected"})
    ELSE IF pool_fn = "delete_snapshot" THEN Occurrences(snapshot_ids, id)
    ELSE 0

\* C12: for an id of fewer than 9 segments no show or delete command is ever
\* issued, it never enters the valid list, each consumed occurrence has one
\* 'invalid' entry (id, "Invalid snapshot ID format") under 'Unknown', and
\* the batch goes on: once pre-validation is over every id has its outcome
\* and every well-formed id has had its show command.
C12_ShortIdInvalid ==
    /\ \A id \in SnapshotIdUniverse :
          TooShort(id) =>
            /\ Count(issued, Cmd("snapshot show", id, None)) = 0
            /\ Count(issued, Cmd("snapshot delete", id, None)) = 0
            /\ Occurrences(valid_snapshots, id) = 0
            /\ Occurrences(Bucket(pre_validation_results, Unknown, "invalid"),
                           <<id, "Invalid snapshot ID format">>) = PreValidated(id)
    /\ PreValidationOver =>
          /\ PayloadCount(pre_validation_results) = Len(snapshot_ids)
          /\ \A id \in SnapshotIdUniverse :
                ~TooShort(id) =>
                    Count(issued, Cmd("snapshot show", id, None))
                        = Occurrences(snapshot_ids, id)

\* a finished run whose batch held a short id next to a valid one
C12_Witness ==
    /\ pc = "done"
    /\ \E i \in 1..Len(snapshot_ids) : TooShort(snapshot_ids[i])
    /\ valid_snapshots # <<>>

\* 'valid' entries of the pre-validation aggregate that carry the name, under
\* every grouping key
ValidOutcomes(name) ==
    SumOver(DOMAIN pre_validation_results,
            [k \in DOMAIN pre_validation_results |->
                Occurrences(Bucket(pre_validation_results, k, "valid"), name)])

\* delete_valid_snapshots has returned
DeletionOver == pool_fn = "delete_snapshot" /\ PoolDrained

\* 'az snapshot delete --ids id' commands issued so far
Deletes(id) == Count(issued, Cmd("snapshot delete", id, None))

\* C13: whatever the completion order, the valid list holds an id exactly
\* once for each 'valid' outcome pre-validation recorded for it; the delete
\* commands issued for an id never exceed its occurrences in the valid
\* list and equal them once the deletion pass has returned; so no delete is
\* issued for an occurrence classified non-existent, invalid or error.
C13_DeleteExactlyValid ==
    \A id \in SnapshotIdUniverse :
        /\ Occurrences(valid_snapshots, id) = ValidOutcomes(Last(SegmentsOf[id]))
        /\ Deletes(id) <= Occurrences(valid_snapshots, id)
        /\ pool_fn # "delete_snapshot" => Deletes(id) = 0
        /\ DeletionOver => Deletes(id) = Occurrences(valid_snapshots, id)

\* the deletion pass has returned after a batch in which one id was valid
\* and another occurrence was not
C13_Witness ==
    /\ DeletionOver
    /\ Len(valid_snapshots) = 1
    /\ Len(snapshot_ids) = 2
    /\ Deletes(valid_snapshots[1]) = 1

\* (subscription, resource group) of the ids of a list
PairsOf(ids) ==
    {<<SegmentsOf[ids[i]][3], SegmentsOf[ids[i]][5]>> :
        i \in {j \in 1..Len(ids) : Len(SegmentsOf[ids[j]]) >= 5}}

\* resource groups an 'az lock list' or 'az lock delete' was issued for
GroupsTouched ==
    {c.a : c \in IssuedOps(issued, "lock list")}
        \cup {c.b : c \in IssuedOps(issued, "lock delete")}

\* C14: every pair whose scan has begun is the pair of an id of the valid
\* list, the lock list of a resource group is requested at most once, every
\* resource group a lock was listed or deleted for is that of a valid id,
\* and the locks of a pair no valid id has are never changed.
C14_ScanOnlyValidPairs ==
    LET valid_pairs == PairsOf(valid_snapshots) IN
    /\ scan_started \subseteq valid_pairs
    /\ resource_groups \subseteq valid_pairs
    /\ \A c \in IssuedOps(issued, "lock list") : Count(issued, c) = 1
    /\ GroupsTouched \subseteq {pair[2] : pair \in valid_pairs}
    /\ \A pair \in DOMAIN InitialLocks \ valid_pairs :
          LocksOf(cloud_locks, pair) = InitialLocks[pair]

\* a lock of a valid id's group was removed while the batch also held an id
\* of another locked group that is not valid
C14_Witness ==
    /\ removed_locks # <<>>
    /\ PairsOf(snapshot_ids) \ PairsOf(valid_snapshots) # {}
    /\ resource_groups \subseteq scan_started
    /\ pc = "done"

(***************************************************************************)
(* Properties of the subscription context (specification Spec).            *)
(***************************************************************************)
\* C15: no 'az lock list', 'az lock delete' or 'az lock create' has run while
\* the CLI context was a subscription other than that of the pair the
\* command was issued for.
C15_LockCommandsInContext == misdirected = {}

\* futures of the current pool that the as_completed loop has consumed
Collected == {i \in 1..Len(futures) : futures[i].st = "collected"}

\* the counter of the current pass will not change any more
PassOver == PoolDrained /\ pc \notin {"start", "prevalidate", "delete"}

\* C17: in each pooled pass the progress counter equals the number of
\* futures consumed so far, whatever their outcome, a turn of the loop
\* raises it by exactly one, it never decreases while the pass lasts, and
\* once the pass has returned it equals the number of items submitted.
C17_ProgressCounts ==
    /\ [](progress = Cardinality(Collected))
    /\ [](PassOver => progress = Len(futures))
    /\ [][\A i \in 1..Len(futures) : Collect(i) => progress' = progress + 1]_vars
    /\ [][progress' >= progress \/ (ScanReturn /\ progress' = 0)]_vars

\* the deletion pass has returned after a future raised and another did not
C17_Witness ==
    /\ pool_fn = "delete_snapshot"
    /\ pc = "restore"
    /\ progress = 2
    /\ \E i, j \in 1..Len(futures) : futures[i].res = "fault" /\ futures[j].res = "ok"

(***************************************************************************)
(* Properties of the confirmation (specification SpecConfirm).             *)
(***************************************************************************)
\* C18: the prompt is shown exactly for the files of more than 100 lines;
\* the run is cancelled exactly when the answer given is not 'y' or 'Y',
\* and a cancelled run has submitted no future, issued no command, and has
\* no step left; a file of at most 100 lines is never asked about and
\* never cancelled; and no exception other than a user interrupt ends a
\* run while a pool still has a future to consume.
C18_ConfirmLargeBatch ==
    /\ confirm.asked <=> (Len(snapshot_ids) > 100 /\ pc # "start")
    /\ pc = "cancelled" <=> (confirm.asked /\ confirm.answer \notin {<<"y">>, <<"Y">>})
    /\ pc = "cancelled" => (issued = <<>> /\ futures = <<>> /\ ~ENABLED Next)
    /\ (confirm.asked /\ pc # "cancelled") => Len(futures) = Len(snapshot_ids)
    /\ (pc = "exited" /\ exc # "KeyboardInterrupt") => PoolDrained

\* the user declined a file of 101 lines
C18_Witness ==
    /\ pc = "cancelled"
    /\ Len(snapshot_ids) = 101
    /\ confirm.answer = <<"n">>

(***************************************************************************)
(* Properties of run_az_command (specification SpecRun).                   *)
(***************************************************************************)
\* C19: when the call is over the command has been run exactly once; a
\* process that ended with a non-zero exit code has given a returned value
\* that starts with "Error:"; a process that could not be started has given
\* a raised exception; in the argument-vector and in the shell-string form.
C19_RunOnceErrorsSurfaced ==
    run_pc \in {"returned", "raised"} =>
        /\ run_count = 1
        /\ (run_env.started /\ run_env.returncode # 0) =>
               (run_pc = "returned" /\ StartsWithError(run_result.value))
        /\ ~run_env.started => run_pc = "raised"

(***************************************************************************)
(* Properties of the creation flow (specification SpecCreate).             *)
(***************************************************************************)
\* steps of the chain whose command was started for line k
IssuedFor(k) == {c[2] : c \in {d \in c_issued : d[1] = k}}

\* C16: no exception leaves create_snapshots; every line gone through has
\* exactly one entry in the successful or the failed list; a line that does
\* not split into exactly two fields has had no command started and, once
\* gone through, has its (line, "Invalid line format") entry in the failed
\* list; and at the end successful + failed equals the number of lines.
C16_OneOutcomePerLine ==
    /\ c_exc = "none"
    /\ Len(successful_snapshots) + Len(failed_snapshots) = c_progress
    /\ c_progress = c_i - 1
    /\ c_pc = "done" =>
          Len(successful_snapshots) + Len(failed_snapshots) = Len(vm_list)
    /\ \A k \in 1..Len(vm_list) :
          Len(SplitWs(vm_list[k])) # 2 =>
              /\ IssuedFor(k) = {}
              /\ k < c_i =>
                    \E n \in 1..Len(failed_snapshots) :
                        failed_snapshots[n] = <<vm_list[k], InvalidLineFormat>>

\* the command of the call ended in failure: a non-zero exit code after the
\* last attempt, or no disk id in the output
CallFailed(call) ==
    call.result[3] # 0 \/ (call.step = "disk" /\ call.result[1] = <<>>)

\* C20: the calls process_vm has made for a VM follow the chain in order and
\* only the last of them can have failed; a call that returns a non-zero
\* exit code has used all its attempts; no command of a step beyond the
\* calls made (and the one in progress) is started for the VM; and when the
\* last call failed, process_vm has returned, the commands started for the
\* VM are those of the steps up to the failed one, and the entry recorded
\* for the VM is the "Failed ..." text of that step.
C20_ShortCircuit ==
    /\ \A j \in 1..Len(c_calls) :
          /\ j <= Len(Steps) /\ c_calls[j].step = Steps[j]
          /\ j < Len(c_calls) => ~CallFailed(c_calls[j])
    /\ (c_pc = "call" /\ r_pc = "returned" /\ r_result[3] # 0) =>
          Len(attempts) = DefaultMaxRetries
    /\ c_pc = "call" =>
          IssuedFor(c_i) \subseteq {Steps[j] : j \in 1..(Len(c_calls) + 1)}
    /\ (c_calls # <<>> /\ CallFailed(c_calls[Len(c_calls)])) =>
          /\ c_pc \in {"loop", "done"}
          /\ IssuedFor(c_i - 1) = {Steps[j] : j \in 1..Len(c_calls)}
          /\ failed_snapshots # <<>>
          /\ failed_snapshots[Len(failed_snapshots)]
                = <<SplitWs(vm_list[c_i - 1])[2], FailedText(c_calls[Len(c_calls)].step)>>

\* the resource-group command of a VM failed after three attempts
C20_Witness ==
    /\ c_pc = "loop"
    /\ Len(c_calls) = 3
    /\ c_calls[3].result[3] # 0
    /\ Len(attempts) = 3
    /\ IssuedFor(c_i - 1) = {"set", "disk", "group"}

\* the 'az snapshot create' of the VM of line c_i has just returned to
\* process_vm with exit code 0
CreateSucceeded ==
    c_pc = "call" /\ c_step = "create" /\ r_pc = "returned" /\ r_result[3] = 0

\* name of the VM of the line being processed
CurrentVm == SplitWs(vm_list[c_i])[2]

\* C21: after a create command that exited with 0, whatever its output, the
\* VM is appended to the successful list with its generated snapshot name
\* and the failed list is left alone; snap_rid_list.txt changes only in such
\* a step, only by appending the id of an output that is a JSON object with
\* a non-empty id; a step that appends to the failed list leaves the file
\* alone; so the file never holds more ids than there are successful VMs.
C21_IdPersistedOnlyOnSuccess ==
    /\ [][(CreateSucceeded /\ StepReturn) =>
            /\ successful_snapshots'
                  = Append(successful_snapshots, <<CurrentVm, SnapshotName(CurrentVm)>>)
            /\ failed_snapshots' = failed_snapshots]_vars
    /\ [][snap_rid_list' # snap_rid_list =>
            /\ CreateSucceeded
            /\ Len(r_result[1]) >= 3
            /\ r_result[1][1] = "{" /\ r_result[1][Len(r_result[1])] = "}"
            /\ snap_rid_list'
                  = Append(snap_rid_list, SubSeq(r_result[1], 2, Len(r_result[1]) - 1))]_vars
    /\ [][failed_snapshots' # failed_snapshots => snap_rid_list' = snap_rid_list]_vars
    /\ [](Len(snap_rid_list) <= Len(successful_snapshots))

\* a VM was reported as a success although the output of its create command
\* was not JSON, and nothing was written to the file
C21_Witness ==
    /\ c_pc = "loop"
    /\ Len(c_calls) = 4
    /\ c_calls[4].result = <<NotJson, <<>>, 0>>
    /\ Len(successful_snapshots) = 1
    /\ snap_rid_list = <<>>

(***************************************************************************)
(* Order independence of the aggregation (specification Spec).             *)
(***************************************************************************)
\* the entry that the outcome of future i stands for, as a function of the
\* id of the future and of what its worker met: grouping key, tag, payload
EntryOf(i) ==
    LET f     == futures[i]
        parts == SegmentsOf[f.id]
    IN  IF pool_fn = "delete_snapshot"
        THEN IF f.env = "fault"
             THEN [key |-> Unknown, tag |-> "error", data |-> <<f.id, FaultText>>]
             ELSE IF f.env = "ok"
             THEN [key |-> SubscriptionName(subscription_names, parts[3]),
                   tag |-> "deleted", data |-> Last(parts)]
             ELSE [key |-> SubscriptionName(subscription_names, parts[3]),
                   tag |-> "failed", data |-> <<Last(parts), "Deletion failed">>]
        ELSE IF Len(parts) < 9
             THEN [key |-> Unknown, tag |-> "invalid",
                   data |-> <<f.id, "Invalid snapshot ID format">>]
             ELSE IF f.env = "fault"
             THEN [key |-> Unknown, tag |-> "error", data |-> <<f.id, FaultText>>]
             ELSE [key |-> SubscriptionName(subscription_names, parts[3]),
                   tag |-> IF f.env = "missing" THEN "non-existent" ELSE "valid",
                   data |-> Last(parts)]

SameEntry(e, f) == e.tag = f.tag /\ e.key = f.key /\ e.data = f.data

\* consumed futures of the current pool whose entry is e
ConsumedWith(e) == {j \in Collected : SameEntry(EntryOf(j), e)}

\* consumed futures of the pre-validation pool, for the id, that are valid
ConsumedValid(id) ==
    {j \in Collected : futures[j].id = id /\ futures[j].env = "exists"}

\* C22: at every point of a pooled pass, and so when it returns, the
\* aggregate is determined by which futures were consumed and what their
\* workers met, not by the order they completed in: each bucket holds every
\* entry as many times as there are consumed futures standing for it, the
\* aggregate holds nothing else, and the valid list holds every id as many
\* times as there are consumed futures of that id found to exist.
C22_OrderIndependent ==
    /\ \A i \in Collected :
          LET e == EntryOf(i) IN
          Occurrences(Bucket(PoolAggregate, e.key, e.tag), e.data)
              = Cardinality(ConsumedWith(e))
    /\ PayloadCount(PoolAggregate) = Cardinality(Collected)
    /\ pool_fn = "process_snapshot" =>
          /\ Len(valid_snapshots) = Cardinality({j \in Collected : futures[j].env = "exists"
                                                    /\ Len(SegmentsOf[futures[j].id]) >= 9})
          /\ \A id \in SnapshotIdUniverse :
                ~TooShort(id) =>
                    Occurrences(valid_snapshots, id) = Cardinality(ConsumedValid(id))

\* pre-validation has returned after the future submitted second was
\* consumed first, both well-formed ids ending in the same bucket
C22_Witness ==
    /\ pool_fn = "process_snapshot"
    /\ PoolDrained
    /\ Len(futures) = 2
    /\ Len(valid_snapshots) = 2
    /\ valid_snapshots[1] = futures[2].id
    /\ valid_snapshots[1] # valid_snapshots[2]

(***************************************************************************)
(* Removal of the locks (specification Spec).                              *)
(***************************************************************************)
\* names of the locks that block deletion, in the cloud before the run
BlockingNames ==
    UNION { { InitialLocks[p][k].name :
                k \in {j \in DOMAIN InitialLocks[p] :
                          InitialLocks[p][j].level = CanNotDelete} } :
            p \in DOMAIN InitialLocks }

\* the locks of a pair that do not block deletion
OtherLocks(cloud, pair) ==
    SelectSeq(LocksOf(cloud, pair), LAMBDA l : l.level # CanNotDelete)

\* the lock that the scan is looking at is in the cloud, where the CLI points
LockPresent(cloud) ==
    \E k \in 1..Len(LocksOf(cloud, <<active_subscription, cur_pair[2]>>)) :
        LocksOf(cloud, <<active_subscription, cur_pair[2]>>)[k].name = locks[lock_i].name

\* C23: 'az lock delete' is issued only for locks of level CanNotDelete; the
\* locks of every other level stay as they were; a record is appended to
\* removed_locks only by the turn of the scan that issued the delete of a
\* CanNotDelete lock and saw it succeed (the lock is gone), the record being
\* (subscription, resource group, lock name) of that lock; and every
\* 'az lock create' is for a recorded lock, so a lock whose delete failed is
\* neither recorded nor created again.
C23_RemoveOnlyBlocking ==
    /\ [](\A c \in IssuedOps(issued, "lock delete") : c.a \in BlockingNames)
    /\ [](\A pair \in DOMAIN cloud_locks :
            OtherLocks(cloud_locks, pair) = OtherLocks(InitialLocks, pair))
    /\ [][removed_locks' # removed_locks =>
            /\ pc = "scan_locks"
            /\ locks[lock_i].level = CanNotDelete
            /\ Count(issued', Cmd("lock delete", locks[lock_i].name, cur_pair[2]))
                  = Count(issued, Cmd("lock delete", locks[lock_i].name, cur_pair[2])) + 1
            /\ LockPresent(cloud_locks) /\ ~LockPresent(cloud_locks')
            /\ removed_locks' = Append(removed_locks,
                                      <<cur_pair[1], cur_pair[2], locks[lock_i].name>>)]_vars
    /\ [][(pc = "scan_locks" /\ LockPresent(cloud_locks'))
            => removed_locks' = removed_locks]_vars
    /\ [](\A c \in IssuedOps(issued, "lock create") :
            \E k \in 1..Len(removed_locks) :
                removed_locks[k][3] = c.a /\ removed_locks[k][2] = c.b)

\* the run is over; the delete of L1 was issued and failed, so that nothing
\* was recorded and no lock was created; L2 (ReadOnly) was in the listing
C23_Witness ==
    /\ pc = "done"
    /\ Count(issued, Cmd("lock delete", <<"L", "1">>, <<"g">>)) = 1
    /\ removed_locks = <<>>
    /\ IssuedOps(issued, "lock create") = {}
    /\ Len(locks) = 2

(***************************************************************************)
(* Properties of validate_snapshots (specification SpecValidate).          *)
(***************************************************************************)
\* the show command of line k exited with 0 and printed the object
ShowSucceeded(k) ==
    /\ v_envs[k].started
    /\ v_envs[k].returncode = 0
    /\ Strip(v_envs[k].stdout) = ShowJson

FiveFields == {"name", "resource_group", "time_created", "size_gb", "state"}

\* C24: validated_snapshots holds one record per line handled so far, in
\* the order of the file, and one per line of the file when the summary is
\* printed; a record has exists = TRUE exactly when the show command of its
\* line exited with 0 and printed the object, and then it carries the five
\* values of the object; in every other case (process not started, non-zero
\* exit, no output, output that is not JSON) it has exists = FALSE and no
\* other field, and the loop goes on: one command was issued per record;
\* the counts printed satisfy existing + missing = total.
C24_OneRecordPerId ==
    /\ Len(validated_snapshots) = v_progress
    /\ v_pc \in {"loop", "done"} =>
          /\ Len(validated_snapshots) = v_i - 1
          /\ Len(v_envs) = Len(validated_snapshots)
    /\ \A k \in 1..Len(validated_snapshots) :
          /\ validated_snapshots[k].id = v_snapshot_ids[k]
          /\ validated_snapshots[k].exists = ShowSucceeded(k)
          /\ IF ShowSucceeded(k)
             THEN /\ DOMAIN validated_snapshots[k] = {"id", "exists"} \cup FiveFields
                  /\ validated_snapshots[k].name = "n"
                  /\ validated_snapshots[k].resource_group = "g"
                  /\ validated_snapshots[k].time_created = "t"
                  /\ validated_snapshots[k].size_gb = "5"
                  /\ validated_snapshots[k].state = "S"
             ELSE DOMAIN validated_snapshots[k] = {"id", "exists"}
    /\ v_pc = "done" =>
          /\ Len(validated_snapshots) = Len(v_snapshot_ids)
          /\ v_summary[1] = Len(v_snapshot_ids)
          /\ v_summary[2] + v_summary[3] = v_summary[1]
          /\ v_summary[2] = Cardinality({k \in 1..Len(v_envs) : ShowSucceeded(k)})
    /\ v_pc = "returned" => v_snapshot_ids = <<>>

\* the summary is printed for a file of two lines: the command of the first
\* printed text that is not JSON, the command of the second succeeded
C24_Witness ==
    /\ v_pc = "done"
    /\ Len(v_snapshot_ids) = 2
    /\ v_envs[1].returncode = 0 /\ Strip(v_envs[1].stdout) = <<"x">>
    /\ ShowSucceeded(2)
    /\ v_summary = <<2, 1, 1>>

(***************************************************************************)
(* A batch with no valid id (specification Spec).                          *)
(***************************************************************************)
\* pre-validation filed no id under the tag 'valid'
NoneClassifiedValid ==
    \A k \in DOMAIN pre_validation_results :
        Bucket(pre_validation_results, k, "valid") = <<>>

\* C25: once pre-validation is over without any id classified valid, no
\* 'az lock list', 'az lock delete', 'az lock create' or 'az snapshot
\* delete' is ever issued, the lock scan and the deletion pool are never
\* entered, and when delete_snapshots reaches its summary the final
\* aggregate is the pre-validation aggregate and nothing else.
C25_NothingValidNothingDone ==
    (PreValidationOver /\ NoneClassifiedValid) =>
        /\ IssuedOps(issued, "lock list") = {}
        /\ IssuedOps(issued, "lock delete") = {}
        /\ IssuedOps(issued, "lock create") = {}
        /\ IssuedOps(issued, "snapshot delete") = {}
        /\ pc \in {"prevalidate", "done", "exited"}
        /\ pool_fn = "process_snapshot"
        /\ deletion_results = <<>>
        /\ cloud_locks = InitialLocks
        /\ pc = "done" => results = pre_validation_results

\* the run is over for a file of two ids, one found missing and one
\* malformed: nothing was valid
C25_Witness ==
    /\ pc = "done"
    /\ Len(snapshot_ids) = 2
    /\ NoneClassifiedValid
    /\ \E k \in DOMAIN pre_validation_results :
          Bucket(pre_validation_results, k, "non-existent") # <<>>
    /\ Bucket(pre_validation_results, Unknown, "invalid") # <<>>
    /\ results = pre_validation_results

(***************************************************************************)
(* The subscription context and the pools (specification Spec).            *)
(***************************************************************************)
\* how often 'az account set' was issued for each subscription
AccountSets(log) == [c \in IssuedOps(log, "account set") |-> log[c]]

\* C26: while a pool exists (pre_validate_snapshots, delete_valid_snapshots)
\* and in every step of a worker, no 'az account set' is issued and the
\* subscription the CLI context is set to does not change, so that it is
\* the same when the pass returns as when it started; the context changes
\* only in the loops of check_and_remove_scope_locks and restore_scope_locks.
C26_WorkersKeepContext ==
    /\ [][(pc \in {"prevalidate", "delete"} \/ futures' # futures) =>
            /\ active_subscription' = active_subscription
            /\ AccountSets(issued') = AccountSets(issued)]_vars
    /\ [][active_subscription' # active_subscription =>
            /\ pc \in {"scan", "restore"}
            /\ WorkersIdle
            /\ Count(issued', Cmd("account set", active_subscription', None))
                  = Count(issued, Cmd("account set", active_subscription', None)) + 1]_vars
    /\ [](pc \in {"start", "prevalidate"} =>
            /\ active_subscription = DefaultSubscription
            /\ IssuedOps(issued, "account set") = {})

\* the deletion pool has returned after two workers ran, the one of an id of
\* subscription B included, and the context is still the one the lock scan
\* left, subscription A
C26_Witness ==
    /\ pc = "restore"
    /\ pool_fn = "delete_snapshot"
    /\ PoolDrained
    /\ Len(futures) = 2
    /\ futures[1].id # futures[2].id
    /\ active_subscription = SubA
    /\ Count(issued, Cmd("account set", SubB, None)) = 1
    /\ Count(issued, Cmd("account set", SubA, None)) = 1

(***************************************************************************)
(* Round trip of the locks (specification Spec).                           *)
(***************************************************************************)
\* names of the CanNotDelete locks of a pair
BlockingOn(cloud, pair) ==
    { LocksOf(cloud, pair)[k].name :
        k \in {j \in 1..Len(LocksOf(cloud, pair)) :
                  LocksOf(cloud, pair)[j].level = CanNotDelete} }

\* 'az lock delete' commands issued so far
LockDeletes == SumOver(IssuedOps(issued, "lock delete"), issued)

\* every switch took effect before the lock command that followed it, every
\* 'az lock delete' succeeded (it was recorded) and every 'az lock create'
\* succeeded; a failed 'az lock list' or a switch that exits non-zero ends
\* the run before its summary
LockCommandsSucceeded ==
    /\ misdirected = {}
    /\ LockDeletes = Len(removed_locks)
    /\ \A k \in 1..Len(restore_results) : ~IsError(restore_results[k])

\* C27: when delete_snapshots has reached its summary and every lock
\* command and every switch succeeded, each resource group of the batch,
\* and every other one, carries the CanNotDelete lock names it carried
\* before the run, whatever the deletions gave.
C27_LockRoundTrip ==
    (pc = "done" /\ LockCommandsSucceeded) =>
        /\ \A pair \in resource_groups \cup DOMAIN cloud_locks \cup DOMAIN InitialLocks :
              BlockingOn(cloud_locks, pair) = BlockingOn(InitialLocks, pair)
        /\ Len(restore_results) = Len(removed_locks)

\* two locks were removed and created again, while one deletion failed and
\* the future of the other raised
C27_Witness ==
    /\ pc = "done"
    /\ LockCommandsSucceeded
    /\ Len(removed_locks) = 2
    /\ Len(restore_results) = 2
    /\ \E k \in DOMAIN deletion_results :
          Bucket(deletion_results, k, "failed") # <<>>
    /\ Bucket(deletion_results, Unknown, "error") # <<>>

(***************************************************************************)
(* One chain at a time, under the VM's subscription (SpecCreate).          *)
(***************************************************************************)
\* resource_id.split("/")[2] of the line
VmSubscription(i) == Split(SplitWs(vm_list[i])[1])[3]

\* lines whose outcome create_snapshots has filed
LinesFiled == Len(successful_snapshots) + Len(failed_snapshots)

\* C28: a command is started only for the line the loop is at, when every
\* earlier line has its outcome filed, so one chain at most is in progress;
\* the first command started for a line is 'az account set'; while a later
\* command of the chain (vm show, vm show, snapshot create) is in progress,
\* started, waiting in the delay between two attempts or returning, the
\* CLI context is the subscription of that line; and during a delay no
\* command is started and the loop does not move.
C28_OneChainUnderItsSubscription ==
    /\ [][c_issued' # c_issued =>
            /\ c_issued' = c_issued \cup {<<c_i, c_step>>}
            /\ c_pc = "call"
            /\ LinesFiled = c_i - 1
            /\ c_progress = c_i - 1
            /\ \A e \in c_issued : e[1] <= c_i
            /\ c_step # "set" =>
                  /\ <<c_i, "set">> \in c_issued
                  /\ c_subscription = VmSubscription(c_i)]_vars
    /\ [](c_pc = "call" /\ c_step # "set" => c_subscription = VmSubscription(c_i))
    /\ [](\A e \in c_issued : <<e[1], "set">> \in c_issued)
    /\ [][r_pc = "sleep" =>
            /\ c_issued' = c_issued
            /\ c_i' = c_i /\ c_step' = c_step
            /\ c_subscription' = c_subscription]_vars

\* the second VM, of subscription B, has its resource-group command waiting
\* in a retry delay after the chain of the first VM, of subscription A, ended
C28_Witness ==
    /\ c_pc = "call"
    /\ c_i = 2
    /\ c_step = "group"
    /\ r_pc = "sleep"
    /\ <<1, "create">> \in c_issued
    /\ VmSubscription(1) = SubA
    /\ c_subscription = SubB

====
